---- MODULE Spec2Model ----
(***************************************************************************)
(* Rule evaluation engine of the compliance-checker wizard: condition      *)
(* evaluator and routing (utils/routing.ts), hub resolution                *)
(* (hooks/useRouting.ts), validation (utils/validation.ts), the wizard     *)
(* state store (hooks/useWizardState.ts) and the handlers of               *)
(* components/QuestionWizard.tsx that compose them.                        *)
(***************************************************************************)
EXTENDS Integers, Sequences, FiniteSets, TLC

VARIABLES
    state,             \* WizardState: currentNodeId, answers, flags, history, isComplete
    historyStack,      \* HistoryEntry[]: the undo snapshots
    validationErrors,  \* string[] shown by QuestionWizard
    lastOp,            \* the handler / store operation that ran last, with its outcome
    call,              \* one invocation of a pure function: inputs and result
    hub                \* the local variables of one processHubNodes loop

vars == <<state, historyStack, validationErrors, lastOp, call, hub>>

(***************************************************************************)
(* Bounds                                                                  *)
(***************************************************************************)
MaxHistory == 4        \* forward steps recorded before the model stops submitting
MaxOption == 2         \* highest option index a click or a selection uses
MaxSnapshots == 2      \* snapshots pushed on the store when it is driven directly
MaxConditions == 2     \* conditions in a route handed to evaluateAllConditions directly
MaxOutcomes == 3       \* outcomes in a list handed to the grouping functions directly
MaxToggles == 4        \* option clicks in a sequence that builds one selection

(***************************************************************************)
(* Values.  A flag value is a boolean or a string; === compares type and   *)
(* value, and a missing key reads as undefined.                            *)
(***************************************************************************)
BTrue == [type |-> "boolean", val |-> "true"]
BFalse == [type |-> "boolean", val |-> "false"]
Str(s) == [type |-> "string", val |-> s]
Undefined == [type |-> "undefined", val |-> ""]
NULL == [null |-> TRUE]

FlagNames == {"fa", "fb", "fc"}
FlagValues == {BTrue, BFalse, Str("true"), Str("hub")}

\* a slip: a flag that was never set reads as false
Get_unsetIsFalse(flags, name) == IF name \in DOMAIN flags THEN flags[name] ELSE BFalse

\* flags[name], undefined when the key is absent
Get(flags, name) == IF name \in DOMAIN flags THEN flags[name] ELSE Undefined

\* Array.prototype.includes
Includes(arr, x) == \E i \in 1..Len(arr) : arr[i] = x

\* String.prototype.includes over a string kept as its sequence of characters
StrIncludes(s, sub) ==
    \E i \in 0..(Len(s) - Len(sub)) : \A j \in 1..Len(sub) : s[i + j] = sub[j]

SetFlag(n, v) == [flag_name |-> n, value |-> v]
FlagEq(n, v) == [flag_equals |-> [flag_name |-> n, value |-> v]]

(***************************************************************************)
(* The immutable data sets the engine is loaded with (data/*.json).  The   *)
(* files are inputs; this instance has a start hub, a route that only      *)
(* matches once the answer's own flags are applied (Q1 option 1), an       *)
(* option without any route (Q3 option 1), a hub chain that overwrites a   *)
(* route's flag (HUBA), a hub without a default route (H2) and a hub       *)
(* cycle (CYC1 <-> CYC2).                                                  *)
(***************************************************************************)
qid_start == <<"s", "t", "a", "r", "t">>
qid_1 == <<"q", "1">>
qid_2 == <<"q", "2">>
qid_3 == <<"q", "3">>
qid_hub_a == <<"h", "u", "b", "_", "a">>
qid_hub_2 == <<"e", "v", "a", "l", "_", "h", "u", "b", "2">>
qid_hub_1 == <<"h", "1">>
qid_cyc == <<"c", "y", "c">>

decisionTree ==
    [start |-> "START",
     nodes |->
       [START |-> [question_id |-> qid_start, type |-> "hub",
                   routing |-> << [go_to |-> "Q1"] >>],
        Q1 |-> [question_id |-> qid_1, type |-> "radio",
                answer_flags |->
                  [i \in {0, 1} |->
                     IF i = 0
                     THEN [set_flags |-> << SetFlag("fa", BTrue) >>]
                     ELSE [set_flags |->
                             << SetFlag("fa", BFalse),
                                [flag_name |-> "fb", value |-> Str("true"),
                                 condition |-> << FlagEq("fa", BTrue) >>] >>]],
                routing |->
                  << [conditions |-> << [answer_is |-> 0] >>, go_to |-> "Q2",
                      set_flags |-> << SetFlag("fa", Str("true")) >>],
                     [conditions |-> << [answer_is |-> 1], FlagEq("fa", BFalse) >>,
                      go_to |-> "HUB1",
                      set_flags |-> << SetFlag("fb", BTrue) >>],
                     [conditions |-> << [answer_is |-> 1] >>, go_to |-> "Q2",
                      set_flags |-> << SetFlag("fc", BTrue) >>],
                     [conditions |-> << [answer_is |-> 2] >>, go_to |-> "Q2"] >>],
        Q2 |-> [question_id |-> qid_2, type |-> "checkbox",
                answer_flags |->
                  [i \in {0} |-> [set_flags |-> << SetFlag("fb", BFalse) >>]],
                routing |->
                  << [conditions |-> << [is_this_exact_match_selected |-> <<0, 1>>] >>,
                      go_to |-> "END",
                      set_flags |-> << SetFlag("fc", Str("true")) >>],
                     [conditions |-> << [if_any_answer_in |-> <<0>>] >>,
                      go_to |-> "HUBA",
                      set_flags |-> << SetFlag("fb", BTrue) >>],
                     [conditions |-> << [if_none_selected_in |-> <<0, 1>>] >>,
                      go_to |-> "CYC1"],
                     [go_to |-> "Q3"] >>],
        Q3 |-> [question_id |-> qid_3, type |-> "radio",
                routing |->
                  << [conditions |-> << [answer_is |-> 0] >>, go_to |-> "END"],
                     [conditions |-> << [if_none_selected_in |-> <<0, 1>>] >>,
                      go_to |-> "END",
                      set_flags |-> << SetFlag("fc", Str("true")) >>] >>],
        HUBA |-> [question_id |-> qid_hub_a, type |-> "hub",
                  routing |->
                    << [conditions |-> << FlagEq("fb", BTrue) >>, go_to |-> "H2",
                        set_flags |-> << SetFlag("fb", Str("hub")) >>],
                       [conditions |-> <<>>, go_to |-> "Q3"] >>],
        H2 |-> [question_id |-> qid_hub_2, type |-> "radio",
                routing |->
                  << [conditions |-> << FlagEq("fa", BTrue) >>, go_to |-> "END"],
                     [conditions |-> << FlagEq("fa", Str("true")),
                                        FlagEq("fb", Str("hub")) >>,
                      go_to |-> "Q3",
                      set_flags |-> << SetFlag("fc", BFalse) >>] >>],
        HUB1 |-> [question_id |-> qid_hub_1, type |-> "hub",
                  routing |->
                    << [go_to |-> "Q3"] >>],
        CYC1 |-> [question_id |-> qid_cyc, type |-> "hub",
                  routing |->
                    << [go_to |-> "CYC2",
                        set_flags |-> << SetFlag("fc", BTrue) >>] >>],
        CYC2 |-> [question_id |-> qid_cyc, type |-> "hub",
                  routing |-> << [go_to |-> "CYC1"] >>]]]

NodeIds == DOMAIN decisionTree.nodes

Opt(i) == [id |-> i]
ExclusiveOpt(i) == [id |-> i, exclusive |-> TRUE]

\* questions.questions, keyed by question id; option ids are the decimal
\* strings "0", "1", ... kept here as the number parseInt reads from them
questions ==
    (qid_1 :> [id |-> qid_1, type |-> "single_choice", required |-> TRUE,
               options |-> << Opt(0), Opt(1), Opt(2) >>])
    @@ (qid_2 :> [id |-> qid_2, type |-> "multiple_choice", required |-> TRUE,
                  options |-> << Opt(0), Opt(1), ExclusiveOpt(2) >>])
    @@ (qid_3 :> [id |-> qid_3, type |-> "single_choice", required |-> FALSE,
                  options |-> << Opt(0), Opt(1) >>])

\* validationRules.rules, keyed by question id
validationRules ==
    (qid_2 :> [min_selections |-> 1, max_selections |-> 2])

(***************************************************************************)
(* utils/routing.ts                                                        *)
(***************************************************************************)
\* a slip: the exact match forgets to compare the lengths
evaluateCondition_noLengthCheck(condition, selectedAnswers, flags) ==
    IF "answer_is" \in DOMAIN condition
    THEN Includes(selectedAnswers, condition.answer_is)
    ELSE IF "is_this_exact_match_selected" \in DOMAIN condition
    THEN LET required == condition.is_this_exact_match_selected IN
         \A i \in 1..Len(required) : Includes(selectedAnswers, required[i])
    ELSE IF "if_any_answer_in" \in DOMAIN condition
    THEN \E i \in 1..Len(condition.if_any_answer_in) :
            Includes(selectedAnswers, condition.if_any_answer_in[i])
    ELSE IF "if_none_selected_in" \in DOMAIN condition
    THEN ~ \E i \in 1..Len(condition.if_none_selected_in) :
              Includes(selectedAnswers, condition.if_none_selected_in[i])
    ELSE IF "flag_equals" \in DOMAIN condition
    THEN Get(flags, condition.flag_equals.flag_name) = condition.flag_equals.value
    ELSE TRUE

\* a slip: none-in is read as "not all of them selected"
evaluateCondition_noneIsNotAll(condition, selectedAnswers, flags) ==
    IF "answer_is" \in DOMAIN condition
    THEN Includes(selectedAnswers, condition.answer_is)
    ELSE IF "is_this_exact_match_selected" \in DOMAIN condition
    THEN LET required == condition.is_this_exact_match_selected IN
         IF Len(selectedAnswers) # Len(required) THEN FALSE
         ELSE \A i \in 1..Len(required) : Includes(selectedAnswers, required[i])
    ELSE IF "if_any_answer_in" \in DOMAIN condition
    THEN \E i \in 1..Len(condition.if_any_answer_in) :
            Includes(selectedAnswers, condition.if_any_answer_in[i])
    ELSE IF "if_none_selected_in" \in DOMAIN condition
    THEN ~ \A i \in 1..Len(condition.if_none_selected_in) :
              Includes(selectedAnswers, condition.if_none_selected_in[i])
    ELSE IF "flag_equals" \in DOMAIN condition
    THEN Get(flags, condition.flag_equals.flag_name) = condition.flag_equals.value
    ELSE TRUE

evaluateCondition(condition, selectedAnswers, flags) ==
    IF "answer_is" \in DOMAIN condition
    THEN Includes(selectedAnswers, condition.answer_is)
    ELSE IF "is_this_exact_match_selected" \in DOMAIN condition
    THEN LET required == condition.is_this_exact_match_selected IN
         IF Len(selectedAnswers) # Len(required) THEN FALSE
         ELSE \A i \in 1..Len(required) : Includes(selectedAnswers, required[i])
    ELSE IF "if_any_answer_in" \in DOMAIN condition
    THEN \E i \in 1..Len(condition.if_any_answer_in) :
            Includes(selectedAnswers, condition.if_any_answer_in[i])
    ELSE IF "if_none_selected_in" \in DOMAIN condition
    THEN ~ \E i \in 1..Len(condition.if_none_selected_in) :
              Includes(selectedAnswers, condition.if_none_selected_in[i])
    ELSE IF "flag_equals" \in DOMAIN condition
    THEN Get(flags, condition.flag_equals.flag_name) = condition.flag_equals.value
    ELSE TRUE

\* a slip: some instead of every
evaluateAllConditions_some(route, selectedAnswers, flags) ==
    IF "conditions" \notin DOMAIN route \/ Len(route.conditions) = 0
    THEN TRUE
    ELSE \E i \in 1..Len(route.conditions) :
            evaluateCondition(route.conditions[i], selectedAnswers, flags)

\* route.conditions is optional: absent or empty means a default route
evaluateAllConditions(route, selectedAnswers, flags) ==
    IF "conditions" \notin DOMAIN route \/ Len(route.conditions) = 0
    THEN TRUE
    ELSE \A i \in 1..Len(route.conditions) :
            evaluateCondition(route.conditions[i], selectedAnswers, flags)

\* route.set_flags || []
RouteFlags(route) == IF "set_flags" \in DOMAIN route THEN route.set_flags ELSE <<>>

RouteResult(route) == [nextNodeId |-> route.go_to, flagsToSet |-> RouteFlags(route)]

RECURSIVE RoutingFrom(_, _, _, _)
RoutingFrom(node, selectedAnswers, flags, i) ==
    IF i > Len(node.routing) THEN NULL
    ELSE IF evaluateAllConditions(node.routing[i], selectedAnswers, flags)
    THEN RouteResult(node.routing[i])
    ELSE RoutingFrom(node, selectedAnswers, flags, i + 1)

\* a plausible slip: the loop keeps going and the last matching route wins
RECURSIVE RoutingLastFrom(_, _, _, _)
RoutingLastFrom(node, selectedAnswers, flags, i) ==
    IF i < 1 THEN NULL
    ELSE IF evaluateAllConditions(node.routing[i], selectedAnswers, flags)
    THEN RouteResult(node.routing[i])
    ELSE RoutingLastFrom(node, selectedAnswers, flags, i - 1)

evaluateRouting_lastMatch(node, selectedAnswers, flags) ==
    RoutingLastFrom(node, selectedAnswers, flags, Len(node.routing))

evaluateRouting(node, selectedAnswers, flags) ==
    RoutingFrom(node, selectedAnswers, flags, 1)

\* a slip: a flag that already has a value keeps it
PutFlag_keepFirst(flags, flag) ==
    [n \in DOMAIN flags \cup {flag.flag_name} |->
        IF n \in DOMAIN flags THEN flags[n] ELSE flag.value]

\* one assignment newFlags[flag.flag_name] = flag.value
PutFlag(flags, flag) ==
    [n \in DOMAIN flags \cup {flag.flag_name} |->
        IF n = flag.flag_name THEN flag.value ELSE flags[n]]

RECURSIVE applyFlags(_, _)
applyFlags(currentFlags, flagsToSet) ==
    IF Len(flagsToSet) = 0 THEN currentFlags
    ELSE applyFlags(PutFlag(currentFlags, Head(flagsToSet)), Tail(flagsToSet))

\* the flag entries of one selected option that pass their own conditions
RECURSIVE OptionFlagsFrom(_, _, _)
OptionFlagsFrom(setFlags, currentFlags, i) ==
    IF i > Len(setFlags) THEN <<>>
    ELSE LET flagConfig == setFlags[i]
             conditionsMet ==
                 IF "condition" \in DOMAIN flagConfig /\ Len(flagConfig.condition) > 0
                 THEN \A k \in 1..Len(flagConfig.condition) :
                        LET cond == flagConfig.condition[k] IN
                        IF "flag_equals" \in DOMAIN cond
                        THEN Get(currentFlags, cond.flag_equals.flag_name)
                               = cond.flag_equals.value
                        ELSE TRUE
                 ELSE TRUE
             rest == OptionFlagsFrom(setFlags, currentFlags, i + 1)
         IN IF conditionsMet
            THEN << SetFlag(flagConfig.flag_name, flagConfig.value) >> \o rest
            ELSE rest

\* a slip: the flags of the options handled so far are merged into the
\* flags the next option's conditions are checked against
RECURSIVE AnswerFlagsFrom_running(_, _, _, _)
AnswerFlagsFrom_running(node, selectedAnswers, currentFlags, i) ==
    IF i > Len(selectedAnswers) THEN <<>>
    ELSE LET answerIndex == selectedAnswers[i] IN
         IF answerIndex \notin DOMAIN node.answer_flags
            \/ "set_flags" \notin DOMAIN node.answer_flags[answerIndex]
         THEN AnswerFlagsFrom_running(node, selectedAnswers, currentFlags, i + 1)
         ELSE LET emitted == OptionFlagsFrom(node.answer_flags[answerIndex].set_flags,
                                             currentFlags, 1)
              IN emitted \o AnswerFlagsFrom_running(node, selectedAnswers,
                                applyFlags(currentFlags, emitted), i + 1)

RECURSIVE AnswerFlagsFrom(_, _, _, _)
AnswerFlagsFrom(node, selectedAnswers, currentFlags, i) ==
    IF i > Len(selectedAnswers) THEN <<>>
    ELSE LET answerIndex == selectedAnswers[i]
             rest == AnswerFlagsFrom(node, selectedAnswers, currentFlags, i + 1)
         IN IF answerIndex \notin DOMAIN node.answer_flags
               \/ "set_flags" \notin DOMAIN node.answer_flags[answerIndex]
            THEN rest
            ELSE OptionFlagsFrom(node.answer_flags[answerIndex].set_flags,
                                 currentFlags, 1) \o rest

getAnswerFlags(node, selectedAnswers, currentFlags) ==
    IF "answer_flags" \notin DOMAIN node THEN <<>>
    ELSE AnswerFlagsFrom(node, selectedAnswers, currentFlags, 1)

isHubNode(node) ==
    node.type = "hub" \/ StrIncludes(node.question_id, <<"h", "u", "b">>)

evaluateHubNode(node, flags) == RoutingFrom(node, <<>>, flags, 1)

(***************************************************************************)
(* hooks/useRouting.ts                                                     *)
(***************************************************************************)
maxIterations == 50

getNode(nodeId) ==
    IF nodeId \in NodeIds THEN decisionTree.nodes[nodeId] ELSE NULL

getNextNode(currentNodeId, selectedAnswers, flags) ==
    IF currentNodeId \notin NodeIds THEN NULL
    ELSE evaluateRouting(decisionTree.nodes[currentNodeId], selectedAnswers, flags)

\* routingResult?.flagsToSet || []
getAllFlagsForAnswer(node, selectedAnswers, currentFlags) ==
    LET answerFlags == getAnswerFlags(node, selectedAnswers, currentFlags)
        routingResult == evaluateRouting(node, selectedAnswers, currentFlags)
        routingFlags == IF routingResult = NULL THEN <<>> ELSE routingResult.flagsToSet
    IN answerFlags \o routingFlags

\* the locals of processHubNodes before the first pass of its while loop
HubStart(startNodeId, flags) ==
    [pc |-> "loop", currentNodeId |-> startNodeId, currentFlags |-> flags,
     accumulatedFlags |-> <<>>, iterations |-> 0, hops |-> 0, console |-> <<>>]

HubReturn(h) == [h EXCEPT !.pc = "return"]

\* the loop body with its safety limit dropped: while (true)
HubPass_noLimit(h) ==
    LET it == [h EXCEPT !.iterations = h.iterations + 1] IN
    IF it.currentNodeId = "END" THEN HubReturn(it)
    ELSE IF it.currentNodeId \notin NodeIds THEN HubReturn(it)
    ELSE LET node == decisionTree.nodes[it.currentNodeId] IN
         IF ~isHubNode(node) THEN HubReturn(it)
         ELSE LET result == evaluateHubNode(node, it.currentFlags) IN
              IF result = NULL THEN HubReturn(it)
              ELSE [it EXCEPT !.currentFlags = applyFlags(it.currentFlags, result.flagsToSet),
                              !.accumulatedFlags = it.accumulatedFlags \o result.flagsToSet,
                              !.currentNodeId = result.nextNodeId,
                              !.hops = it.hops + 1]

\* a slip: the hop's flags are accumulated but not merged into the working
\* copy, so every hub is evaluated against the flags the call was given
HubPass_staleFlags(h) ==
    IF ~(h.iterations < maxIterations) THEN HubReturn(h)
    ELSE LET it == [h EXCEPT !.iterations = h.iterations + 1] IN
         IF it.currentNodeId = "END" THEN HubReturn(it)
         ELSE IF it.currentNodeId \notin NodeIds THEN HubReturn(it)
         ELSE LET node == decisionTree.nodes[it.currentNodeId] IN
              IF ~isHubNode(node) THEN HubReturn(it)
              ELSE LET result == evaluateHubNode(node, it.currentFlags) IN
                   IF result = NULL THEN HubReturn(it)
                   ELSE [it EXCEPT
                           !.accumulatedFlags = it.accumulatedFlags \o result.flagsToSet,
                           !.currentNodeId = result.nextNodeId,
                           !.hops = it.hops + 1]

\* one test of the loop condition followed, when it holds, by one pass of the
\* body; hops counts the passes that moved to a next node
HubPass(h) ==
    IF ~(h.iterations < maxIterations) THEN HubReturn(h)
    ELSE LET it == [h EXCEPT !.iterations = h.iterations + 1] IN
         IF it.currentNodeId = "END" THEN HubReturn(it)
         ELSE IF it.currentNodeId \notin NodeIds THEN HubReturn(it)
         ELSE LET node == decisionTree.nodes[it.currentNodeId] IN
              IF ~isHubNode(node) THEN HubReturn(it)
              ELSE LET result == evaluateHubNode(node, it.currentFlags) IN
                   IF result = NULL THEN HubReturn(it)
                   ELSE [it EXCEPT
                           !.currentFlags = applyFlags(it.currentFlags, result.flagsToSet),
                           !.accumulatedFlags = it.accumulatedFlags \o result.flagsToSet,
                           !.currentNodeId = result.nextNodeId,
                           !.hops = it.hops + 1]

RECURSIVE HubRun(_)
HubRun(h) == IF h.pc = "return" THEN h ELSE HubRun(HubPass(h))

processHubNodes(startNodeId, flags) ==
    LET h == HubRun(HubStart(startNodeId, flags)) IN
    [finalNodeId |-> h.currentNodeId, accumulatedFlags |-> h.accumulatedFlags]

(***************************************************************************)
(* utils/validation.ts                                                     *)
(***************************************************************************)
OptionExclusive(opt) == "exclusive" \in DOMAIN opt /\ opt.exclusive

\* question.options[optionIndex]?.exclusive === true
isExclusiveOption(question, optionIndex) ==
    /\ optionIndex + 1 \in 1..Len(question.options)
    /\ OptionExclusive(question.options[optionIndex + 1])

\* a slip: the required-and-empty check is missing
validateAnswer_noRequiredCheck(question, selectedAnswers, validationRule) ==
    IF question.type = "single_choice" /\ Len(selectedAnswers) > 1
    THEN [isValid |-> FALSE, errors |-> << "Please select only one option" >>]
    ELSE LET minErr ==
                 IF /\ validationRule # NULL
                    /\ "min_selections" \in DOMAIN validationRule
                    /\ validationRule.min_selections # 0
                    /\ Len(selectedAnswers) < validationRule.min_selections
                 THEN << "Please select at least min_selections option(s)" >>
                 ELSE <<>>
             maxErr ==
                 IF /\ validationRule # NULL
                    /\ "max_selections" \in DOMAIN validationRule
                    /\ validationRule.max_selections # 0
                    /\ Len(selectedAnswers) > validationRule.max_selections
                 THEN << "Please select at most max_selections option(s)" >>
                 ELSE <<>>
             errors == minErr \o maxErr
             exclusiveIds == {question.options[k].id : k \in
                                {j \in 1..Len(question.options) :
                                    OptionExclusive(question.options[j])}}
             exclusiveSelected ==
                 \E i \in 1..Len(selectedAnswers) : selectedAnswers[i] \in exclusiveIds
         IN IF exclusiveIds # {} /\ exclusiveSelected /\ Len(selectedAnswers) > 1
            THEN [isValid |-> FALSE,
                  errors |-> errors \o
                     << "The selected option cannot be combined with other options" >>]
            ELSE [isValid |-> Len(errors) = 0, errors |-> errors]

\* a slip: the two early checks push their error but do not return
validateAnswer_noEarlyReturn(question, selectedAnswers, validationRule) ==
    LET requiredErr ==
            IF question.required /\ Len(selectedAnswers) = 0
            THEN << "Please select at least one option" >> ELSE <<>>
        singleErr ==
            IF question.type = "single_choice" /\ Len(selectedAnswers) > 1
            THEN << "Please select only one option" >> ELSE <<>>
        minErr ==
            IF /\ validationRule # NULL
               /\ "min_selections" \in DOMAIN validationRule
               /\ validationRule.min_selections # 0
               /\ Len(selectedAnswers) < validationRule.min_selections
            THEN << "Please select at least min_selections option(s)" >>
            ELSE <<>>
        maxErr ==
            IF /\ validationRule # NULL
               /\ "max_selections" \in DOMAIN validationRule
               /\ validationRule.max_selections # 0
               /\ Len(selectedAnswers) > validationRule.max_selections
            THEN << "Please select at most max_selections option(s)" >>
            ELSE <<>>
        errors == requiredErr \o singleErr \o minErr \o maxErr
        exclusiveIds == {question.options[k].id : k \in
                           {j \in 1..Len(question.options) :
                               OptionExclusive(question.options[j])}}
        exclusiveSelected ==
            \E i \in 1..Len(selectedAnswers) : selectedAnswers[i] \in exclusiveIds
    IN IF exclusiveIds # {} /\ exclusiveSelected /\ Len(selectedAnswers) > 1
       THEN [isValid |-> FALSE,
             errors |-> errors \o
                << "The selected option cannot be combined with other options" >>]
       ELSE [isValid |-> Len(errors) = 0, errors |-> errors]

validateAnswer(question, selectedAnswers, validationRule) ==
    IF question.required /\ Len(selectedAnswers) = 0
    THEN [isValid |-> FALSE, errors |-> << "Please select at least one option" >>]
    ELSE IF question.type = "single_choice" /\ Len(selectedAnswers) > 1
    THEN [isValid |-> FALSE, errors |-> << "Please select only one option" >>]
    ELSE LET minErr ==
                 IF /\ validationRule # NULL
                    /\ "min_selections" \in DOMAIN validationRule
                    /\ validationRule.min_selections # 0
                    /\ Len(selectedAnswers) < validationRule.min_selections
                 THEN << "Please select at least min_selections option(s)" >>
                 ELSE <<>>
             maxErr ==
                 IF /\ validationRule # NULL
                    /\ "max_selections" \in DOMAIN validationRule
                    /\ validationRule.max_selections # 0
                    /\ Len(selectedAnswers) > validationRule.max_selections
                 THEN << "Please select at most max_selections option(s)" >>
                 ELSE <<>>
             errors == minErr \o maxErr
             exclusiveIds == {question.options[k].id : k \in
                                {j \in 1..Len(question.options) :
                                    OptionExclusive(question.options[j])}}
             exclusiveSelected ==
                 \E i \in 1..Len(selectedAnswers) : selectedAnswers[i] \in exclusiveIds
         IN IF exclusiveIds # {} /\ exclusiveSelected /\ Len(selectedAnswers) > 1
            THEN [isValid |-> FALSE,
                  errors |-> errors \o
                     << "The selected option cannot be combined with other options" >>]
            ELSE [isValid |-> Len(errors) = 0, errors |-> errors]

\* Array.prototype.filter keeping the entries outside a set
RECURSIVE FilterOut(_, _)
FilterOut(arr, drop) ==
    IF Len(arr) = 0 THEN <<>>
    ELSE IF Head(arr) \in drop THEN FilterOut(Tail(arr), drop)
    ELSE << Head(arr) >> \o FilterOut(Tail(arr), drop)

\* a slip: selecting a regular option leaves a selected exclusive one in place
handleSelectionWithExclusivity_keepsExclusive(question, currentSelection, toggledOption) ==
    LET isExclusive == isExclusiveOption(question, toggledOption)
        wasSelected == Includes(currentSelection, toggledOption)
    IN IF question.type = "single_choice"
       THEN IF wasSelected THEN <<>> ELSE << toggledOption >>
       ELSE IF wasSelected THEN FilterOut(currentSelection, {toggledOption})
       ELSE IF isExclusive THEN << toggledOption >>
       ELSE currentSelection \o << toggledOption >>

\* a slip: a single-choice option, once selected, cannot be cleared
handleSelectionWithExclusivity_noClear(question, currentSelection, toggledOption) ==
    LET isExclusive == isExclusiveOption(question, toggledOption)
        wasSelected == Includes(currentSelection, toggledOption)
        exclusiveIndices == {j - 1 : j \in {k \in 1..Len(question.options) :
                                              OptionExclusive(question.options[k])}}
    IN IF question.type = "single_choice"
       THEN << toggledOption >>
       ELSE IF wasSelected THEN FilterOut(currentSelection, {toggledOption})
       ELSE IF isExclusive THEN << toggledOption >>
       ELSE FilterOut(currentSelection, exclusiveIndices) \o << toggledOption >>

\* a slip: a selected option of a multiple-choice question is not deselected
handleSelectionWithExclusivity_noDeselect(question, currentSelection, toggledOption) ==
    LET isExclusive == isExclusiveOption(question, toggledOption)
        wasSelected == Includes(currentSelection, toggledOption)
        exclusiveIndices == {j - 1 : j \in {k \in 1..Len(question.options) :
                                              OptionExclusive(question.options[k])}}
    IN IF question.type = "single_choice"
       THEN IF wasSelected THEN <<>> ELSE << toggledOption >>
       ELSE IF isExclusive THEN << toggledOption >>
       ELSE FilterOut(currentSelection, exclusiveIndices) \o << toggledOption >>

handleSelectionWithExclusivity(question, currentSelection, toggledOption) ==
    LET isExclusive == isExclusiveOption(question, toggledOption)
        wasSelected == Includes(currentSelection, toggledOption)
        exclusiveIndices == {j - 1 : j \in {k \in 1..Len(question.options) :
                                              OptionExclusive(question.options[k])}}
    IN IF question.type = "single_choice"
       THEN IF wasSelected THEN <<>> ELSE << toggledOption >>
       ELSE IF wasSelected THEN FilterOut(currentSelection, {toggledOption})
       ELSE IF isExclusive THEN << toggledOption >>
       ELSE FilterOut(currentSelection, exclusiveIndices) \o << toggledOption >>

(***************************************************************************)
(* utils/outcomeEvaluator.ts.  outcomes.outcomes is kept as the list of    *)
(* its values in key order (Object.entries); every outcome's id is its     *)
(* key.  The data set is an input: this instance has a role outcome, an    *)
(* empty role outcome, three risk-level outcomes of which two share a      *)
(* weight and one carries a label outside the priority list, and an        *)
(* obligation.                                                             *)
(***************************************************************************)
Outcome(id, level, weight, risk, articles, empty) ==
    [id |-> id, structure_level |-> level, priority_weight |-> weight,
     risk_level |-> risk, applicable_articles |-> articles, is_empty |-> empty]

outcomes ==
    << Outcome("flag_ai_system_role_provider", "role", 5, "role_classification",
               <<>>, FALSE),
       Outcome("flag_ai_system_role_deployer", "role", 5, "role_classification",
               <<>>, TRUE),
       Outcome("flag_gpai", "risk_level", 10, "general", <<53, 9>>, FALSE),
       Outcome("flag_high_risk", "risk_level", 50, "high_risk", <<6, 9>>, FALSE),
       Outcome("flag_limited", "risk_level", 10, "limited_risk", <<53, 50>>, FALSE),
       Outcome("flag_transparency", "obligation", 10, "transparency_obligations",
               <<50>>, FALSE) >>

\* outcomes.outcomes[id], NULL for a key the data does not have
OutcomeById(id) ==
    IF \E i \in 1..Len(outcomes) : outcomes[i].id = id
    THEN outcomes[CHOOSE i \in 1..Len(outcomes) : outcomes[i].id = id]
    ELSE NULL

\* a slip: the is_empty marker is not looked at
OwnFlagOutcomes_showsEmpty(flags, i) ==
    SelectSeq(outcomes, LAMBDA outcome : Get(flags, outcome.id) = BTrue)

\* the loop over Object.entries(outcomes.outcomes), from entry i on
RECURSIVE OwnFlagOutcomes(_, _)
OwnFlagOutcomes(flags, i) ==
    IF i > Len(outcomes) THEN <<>>
    ELSE IF Get(flags, outcomes[i].id) = BTrue /\ ~outcomes[i].is_empty
    THEN << outcomes[i] >> \o OwnFlagOutcomes(flags, i + 1)
    ELSE OwnFlagOutcomes(flags, i + 1)

roleFlagMapping ==
    [role \in {"provider", "deployer", "importer", "distributor",
               "authorisedrepre", "productmanufacturer"} |->
        CASE role = "provider" -> "flag_ai_system_role_provider"
          [] role = "deployer" -> "flag_ai_system_role_deployer"
          [] role = "importer" -> "flag_ai_system_role_importer"
          [] role = "distributor" -> "flag_ai_system_role_distributor"
          [] role = "authorisedrepre" -> "flag_ai_system_role_authorisedrepre"
          [] role = "productmanufacturer" -> "flag_ai_system_role_productmanufacturer"]

\* a slip: the role outcome is pushed without looking for it in the list
WithRoleOutcome_noFind(flags, activeOutcomes) ==
    LET systemRole == Get(flags, "flag_ai_system_role") IN
    IF systemRole.type = "string" /\ systemRole.val \in DOMAIN roleFlagMapping
    THEN LET roleOutcome == OutcomeById(roleFlagMapping[systemRole.val]) IN
         IF roleOutcome # NULL /\ ~roleOutcome.is_empty
         THEN Append(activeOutcomes, roleOutcome)
         ELSE activeOutcomes
    ELSE activeOutcomes

\* the role outcome named by flag_ai_system_role, pushed unless already there
WithRoleOutcome(flags, activeOutcomes) ==
    LET systemRole == Get(flags, "flag_ai_system_role") IN
    IF systemRole.type = "string" /\ systemRole.val \in DOMAIN roleFlagMapping
    THEN LET roleOutcomeId == roleFlagMapping[systemRole.val]
             roleOutcome == OutcomeById(roleOutcomeId)
         IN IF /\ roleOutcome # NULL
               /\ ~roleOutcome.is_empty
               /\ ~\E k \in 1..Len(activeOutcomes) : activeOutcomes[k].id = roleOutcomeId
            THEN Append(activeOutcomes, roleOutcome)
            ELSE activeOutcomes
    ELSE activeOutcomes

getActiveOutcomes(flags) == WithRoleOutcome(flags, OwnFlagOutcomes(flags, 1))

\* the outcomes pushed on grouped[level], in input order
LevelOutcomes(activeOutcomes, level) ==
    SelectSeq(activeOutcomes, LAMBDA outcome : outcome.structure_level = level)

\* the order the documentation describes: the lower weight first
RECURSIVE InsertByWeight_lowerFirst(_, _)
InsertByWeight_lowerFirst(sorted, outcome) ==
    IF Len(sorted) = 0 THEN << outcome >>
    ELSE IF Head(sorted).priority_weight <= outcome.priority_weight
    THEN << Head(sorted) >> \o InsertByWeight_lowerFirst(Tail(sorted), outcome)
    ELSE << outcome >> \o sorted

\* the place the stable sort with comparator b.priority_weight -
\* a.priority_weight gives to one more element: behind every element of the
\* same or a higher weight
RECURSIVE InsertByWeight(_, _)
InsertByWeight(sorted, outcome) ==
    IF Len(sorted) = 0 THEN << outcome >>
    ELSE IF Head(sorted).priority_weight >= outcome.priority_weight
    THEN << Head(sorted) >> \o InsertByWeight(Tail(sorted), outcome)
    ELSE << outcome >> \o sorted

\* Array.prototype.sort((a, b) => b.priority_weight - a.priority_weight)
RECURSIVE SortByWeight(_)
SortByWeight(arr) ==
    IF Len(arr) = 0 THEN <<>>
    ELSE InsertByWeight(SortByWeight(SubSeq(arr, 1, Len(arr) - 1)), arr[Len(arr)])

groupOutcomesByLevel(activeOutcomes) ==
    [level \in {"role", "risk_level", "obligation"} |->
        SortByWeight(LevelOutcomes(activeOutcomes, level))]

riskPriority ==
    << "prohibited", "systemic_risk", "high_risk", "obligations",
       "transparency_obligations", "open_source_exception", "general",
       "out_of_scope", "not_applicable", "role_classification" >>

\* a slip: the outcomes are scanned instead of the priority list, and the
\* first outcome with a listed label decides
getPrimaryRiskLevel_firstOutcome(activeOutcomes) ==
    LET listed == SelectSeq(activeOutcomes,
                            LAMBDA o : Includes(riskPriority, o.risk_level))
    IN IF Len(listed) = 0 THEN "general" ELSE listed[1].risk_level

\* the loop over riskPriority from label i on
RECURSIVE PrimaryRiskFrom(_, _)
PrimaryRiskFrom(activeOutcomes, i) ==
    IF i > Len(riskPriority) THEN "general"
    ELSE IF \E k \in 1..Len(activeOutcomes) :
               activeOutcomes[k].risk_level = riskPriority[i]
    THEN riskPriority[i]
    ELSE PrimaryRiskFrom(activeOutcomes, i + 1)

getPrimaryRiskLevel(activeOutcomes) == PrimaryRiskFrom(activeOutcomes, 1)

\* the numbers added to articlesSet
ArticlesSet(activeOutcomes) ==
    UNION {{activeOutcomes[k].applicable_articles[a] :
               a \in 1..Len(activeOutcomes[k].applicable_articles)} :
           k \in 1..Len(activeOutcomes)}

\* Array.from(set).sort((a, b) => a - b)
RECURSIVE SortAscending(_)
SortAscending(set) ==
    IF set = {} THEN <<>>
    ELSE LET least == CHOOSE x \in set : \A y \in set : x <= y
         IN << least >> \o SortAscending(set \ {least})

\* a slip: the numbers are collected in an array and sorted, without the Set
RECURSIVE InsertAscending(_, _)
InsertAscending(sorted, x) ==
    IF Len(sorted) = 0 THEN << x >>
    ELSE IF Head(sorted) <= x
    THEN << Head(sorted) >> \o InsertAscending(Tail(sorted), x)
    ELSE << x >> \o sorted

RECURSIVE SortedArticlesFrom(_, _, _)
SortedArticlesFrom(activeOutcomes, k, a) ==
    IF k > Len(activeOutcomes) THEN <<>>
    ELSE IF a > Len(activeOutcomes[k].applicable_articles)
    THEN SortedArticlesFrom(activeOutcomes, k + 1, 1)
    ELSE InsertAscending(SortedArticlesFrom(activeOutcomes, k, a + 1),
                         activeOutcomes[k].applicable_articles[a])

getApplicableArticles_noSet(activeOutcomes) ==
    SortedArticlesFrom(activeOutcomes, 1, 1)

getApplicableArticles(activeOutcomes) == SortAscending(ArticlesSet(activeOutcomes))

(***************************************************************************)
(* hooks/useWizardState.ts: the store.  Each operation is the state        *)
(* updater it queues; a handler's updaters run in the order queued.        *)
(***************************************************************************)
initialState ==
    [currentNodeId |-> decisionTree.start, answers |-> <<>>, flags |-> <<>>,
     history |-> <<>>, isComplete |-> FALSE]

setCurrentNode(prev, nodeId) ==
    [prev EXCEPT !.currentNodeId = nodeId, !.isComplete = (nodeId = "END")]

setAnswer(prev, questionId, answers) ==
    [prev EXCEPT !.answers =
        [q \in DOMAIN prev.answers \cup {questionId} |->
            IF q = questionId THEN answers ELSE prev.answers[q]]]

\* a slip: newFlags starts from {} instead of a copy of prev.flags
applyFlagsToState_fromEmpty(prev, flagsToSet) ==
    [prev EXCEPT !.flags = applyFlags(<<>>, flagsToSet)]

applyFlagsToState(prev, flagsToSet) ==
    [prev EXCEPT !.flags = applyFlags(prev.flags, flagsToSet)]

\* a slip: the snapshot is taken without the flags
HistoryEntry_noFlags(nodeId, answers, flags) ==
    [nodeId |-> nodeId, answers |-> answers, flags |-> <<>>]

HistoryEntry(nodeId, answers, flags) ==
    [nodeId |-> nodeId, answers |-> answers, flags |-> flags]

addToHistoryStack(stack, nodeId, answers, flags) ==
    Append(stack, HistoryEntry(nodeId, answers, flags))

\* a slip: the node id is not appended to history
addToHistoryState_noAppend(prev, nodeId) == prev

addToHistoryState(prev, nodeId) ==
    [prev EXCEPT !.history = Append(prev.history, nodeId)]

\* Array.prototype.slice(0, -1)
SliceLast(arr) == IF Len(arr) = 0 THEN <<>> ELSE SubSeq(arr, 1, Len(arr) - 1)

\* goBack as the documentation describes it: the flags are left alone
goBackState_keepFlags(prev, previousEntry) ==
    [prev EXCEPT !.currentNodeId = previousEntry.nodeId,
                 !.history = SliceLast(prev.history),
                 !.isComplete = FALSE]

goBackState(prev, previousEntry) ==
    [prev EXCEPT !.currentNodeId = previousEntry.nodeId,
                 !.history = SliceLast(prev.history),
                 !.isComplete = FALSE,
                 !.flags = previousEntry.flags]

\* a slip in the last line: true is returned on every path
goBack_alwaysTrue(prev, stack) ==
    IF Len(stack) = 0
    THEN [ret |-> "true", state |-> prev, historyStack |-> stack]
    ELSE [ret |-> "true",
          state |-> goBackState(prev, stack[Len(stack)]),
          historyStack |-> SliceLast(stack)]

\* the returned value, the next WizardState and the next historyStack
goBack(prev, stack) ==
    IF Len(stack) = 0
    THEN [ret |-> "false", state |-> prev, historyStack |-> stack]
    ELSE [ret |-> "true",
          state |-> goBackState(prev, stack[Len(stack)]),
          historyStack |-> SliceLast(stack)]

\* a slip: setHistoryStack([]) is left out
resetWizard_keepStack(prev, stack) ==
    [state |-> initialState, historyStack |-> stack]

\* setState(initialState); setHistoryStack([])
resetWizard(prev, stack) ==
    [state |-> initialState, historyStack |-> <<>>]

completeWizard(prev) == [prev EXCEPT !.isComplete = TRUE]

getAnswersForQuestion(questionId) ==
    IF questionId \in DOMAIN state.answers THEN state.answers[questionId] ELSE <<>>

(***************************************************************************)
(* components/QuestionWizard.tsx                                           *)
(***************************************************************************)
\* a slip: past the tree the wizard keeps the node it has answered last
currentNode_lastAnswered ==
    IF state.currentNodeId \in NodeIds \/ Len(state.history) = 0
    THEN getNode(state.currentNodeId)
    ELSE getNode(state.history[Len(state.history)])

currentNode == getNode(state.currentNodeId)

currentQuestion ==
    IF currentNode = NULL THEN NULL
    ELSE IF currentNode.question_id \in DOMAIN questions
    THEN questions[currentNode.question_id]
    ELSE NULL

currentAnswers ==
    IF currentQuestion = NULL THEN <<>> ELSE getAnswersForQuestion(currentQuestion.id)

currentRule ==
    IF currentQuestion # NULL /\ currentQuestion.id \in DOMAIN validationRules
    THEN validationRules[currentQuestion.id]
    ELSE NULL

Op(name, ret, outcome, log) ==
    [op |-> name, ret |-> ret, outcome |-> outcome, log |-> log]

\* the hub-processing effect has work to do for the rendered state
HubEffectResult == processHubNodes(state.currentNodeId, state.flags)

HubEffectPending ==
    /\ currentNode # NULL
    /\ currentNode.type = "hub"
    /\ HubEffectResult.finalNodeId # state.currentNodeId

\* everything handleNext computes from the rendered state once validation
\* has passed
NextStep ==
    LET flagsToSet == getAllFlagsForAnswer(currentNode, currentAnswers, state.flags)
        withAnswer == applyFlags(state.flags, flagsToSet)
        nextResult == getNextNode(state.currentNodeId, currentAnswers, withAnswer)
        routed == nextResult # NULL
        updatedFlags ==
            IF routed THEN applyFlags(withAnswer, nextResult.flagsToSet) ELSE withAnswer
        hubResult ==
            IF routed THEN processHubNodes(nextResult.nextNodeId, updatedFlags)
            ELSE [finalNodeId |-> state.currentNodeId, accumulatedFlags |-> <<>>]
    IN [flagsToSet |-> flagsToSet, nextResult |-> nextResult, routed |-> routed,
        updatedFlags |-> updatedFlags, hubResult |-> hubResult]

handleSelectionChange(answers) ==
    /\ IF currentQuestion = NULL
       THEN UNCHANGED <<state, validationErrors>>
       ELSE /\ state' = setAnswer(state, currentQuestion.id, answers)
            /\ validationErrors' = <<>>
    /\ lastOp' = Op("handleSelectionChange", "void",
                    IF currentQuestion = NULL THEN "ignored" ELSE "recorded", "")
    /\ UNCHANGED <<historyStack, call, hub>>

\* QuestionRenderer.handleOptionClick
handleOptionClick(optionIndex) ==
    /\ ~HubEffectPending
    /\ currentQuestion # NULL
    /\ optionIndex \in 0..(Len(currentQuestion.options) - 1)
    /\ handleSelectionChange(
          handleSelectionWithExclusivity(currentQuestion, currentAnswers, optionIndex))

\* if (list.length > 0) applyFlags(list)
applyFlagsIfAny(prev, flagsToSet) ==
    IF Len(flagsToSet) > 0 THEN applyFlagsToState(prev, flagsToSet) ELSE prev

\* the store after the updaters handleNext has queued when routing fails
\* after the answer: addToHistory and applyFlags(flagsToSet)
UnroutedState(prev, step) ==
    applyFlagsIfAny(addToHistoryState(prev, prev.currentNodeId), step.flagsToSet)

\* a slip: the route's destination is committed as it is, hubs unresolved
RoutedState_hubsUnresolved(prev, step) ==
    setCurrentNode(
        applyFlagsIfAny(UnroutedState(prev, step), step.nextResult.flagsToSet),
        step.nextResult.nextNodeId)

\* the store after every updater of a completed handleNext
RoutedState(prev, step) ==
    setCurrentNode(
        applyFlagsIfAny(
            applyFlagsIfAny(UnroutedState(prev, step), step.nextResult.flagsToSet),
            step.hubResult.accumulatedFlags),
        step.hubResult.finalNodeId)

\* handleNext once validation has passed
handleNextValid(step) ==
    /\ historyStack' = addToHistoryStack(historyStack, state.currentNodeId,
                                         currentAnswers, state.flags)
    /\ UNCHANGED validationErrors
    /\ IF ~step.routed
       THEN /\ state' = UnroutedState(state, step)
            /\ lastOp' = Op("handleNext", "void", "noRoute", "No valid route found")
       ELSE /\ state' = RoutedState(state, step)
            /\ lastOp' = Op("handleNext", "void", "committed", "")

\* handleNext when validateAnswer has refused the selection
handleNextInvalid(validation) ==
    /\ validationErrors' = validation.errors
    /\ UNCHANGED <<state, historyStack>>
    /\ lastOp' = Op("handleNext", "void", "invalid", "")

handleNext ==
    /\ ~HubEffectPending
    /\ Len(historyStack) < MaxHistory
    /\ UNCHANGED <<call, hub>>
    /\ IF currentNode = NULL \/ currentQuestion = NULL
       THEN /\ UNCHANGED <<state, historyStack, validationErrors>>
            /\ lastOp' = Op("handleNext", "void", "ignored", "")
       ELSE IF ~validateAnswer(currentQuestion, currentAnswers, currentRule).isValid
       THEN handleNextInvalid(validateAnswer(currentQuestion, currentAnswers, currentRule))
       ELSE handleNextValid(NextStep)

\* useWizardState.goBack followed by setValidationErrors([])
handleBack ==
    /\ ~HubEffectPending
    /\ UNCHANGED <<call, hub>>
    /\ validationErrors' = <<>>
    /\ LET back == goBack(state, historyStack) IN
       /\ historyStack' = back.historyStack
       /\ state' = back.state
       /\ lastOp' = Op("handleBack", back.ret, "", "")

\* useWizardState.resetWizard followed by setValidationErrors([])
handleRestart ==
    /\ ~HubEffectPending
    /\ state' = resetWizard(state, historyStack).state
    /\ historyStack' = resetWizard(state, historyStack).historyStack
    /\ validationErrors' = <<>>
    /\ lastOp' = Op("handleRestart", "void", "", "")
    /\ UNCHANGED <<call, hub>>

\* the useEffect that resolves a hub the wizard is standing on
hubEffect ==
    /\ HubEffectPending
    /\ state' = setCurrentNode(
                   IF Len(HubEffectResult.accumulatedFlags) > 0
                   THEN applyFlagsToState(state, HubEffectResult.accumulatedFlags)
                   ELSE state,
                   HubEffectResult.finalNodeId)
    /\ lastOp' = Op("hubEffect", "void", "", "")
    /\ UNCHANGED <<historyStack, validationErrors, call, hub>>

IdleCall == [fn |-> "none"]
IdleHub == [pc |-> "idle"]

Init ==
    /\ state = initialState
    /\ historyStack = <<>>
    /\ validationErrors = <<>>
    /\ lastOp = Op("mount", "void", "", "")
    /\ call = IdleCall
    /\ hub = IdleHub

Next ==
    \/ \E optionIndex \in 0..MaxOption : handleOptionClick(optionIndex)
    \/ handleNext
    \/ handleBack
    \/ handleRestart
    \/ hubEffect

Spec == Init /\ [][Next]_vars

(***************************************************************************)
(* Properties of the wizard (Spec)                                         *)
(***************************************************************************)
Named(flagList, n) == \E i \in 1..Len(flagList) : flagList[i].flag_name = n

\* the value the last entry of flagList naming n carries
LastValue(flagList, n) ==
    flagList[CHOOSE i \in 1..Len(flagList) :
                /\ flagList[i].flag_name = n
                /\ \A j \in (i + 1)..Len(flagList) : flagList[j].flag_name # n].value

Committed == lastOp.op = "handleNext" /\ lastOp.outcome = "committed"

\* the snapshot pushed by the forward step that ran last
LastEntry == historyStack[Len(historyStack)]

\* C2 as stated: after a forward step, a flag named both by the per-answer
\* flags of the selection and by the flags of the route the step follows
\* holds the route's value in the store.
C2_RouteValueHeldAfterStep ==
    [][ (lastOp'.op = "handleNext" /\ lastOp'.outcome = "committed") =>
          LET answerFlags == getAnswerFlags(currentNode, currentAnswers, state.flags)
              routeFlags == NextStep.nextResult.flagsToSet
          IN \A n \in FlagNames :
                (Named(answerFlags, n) /\ Named(routeFlags, n))
                   => Get(state'.flags, n) = LastValue(routeFlags, n) ]_vars

\* C2 amended: the per-answer flags are applied before the flags of the
\* route the step follows, so a flag named by both holds the route's value
\* after the step, unless a hub resolved in the same step sets it again.
C2_RouteValueHeldUnlessHubResets ==
    [][ (lastOp'.op = "handleNext" /\ lastOp'.outcome = "committed") =>
          LET answerFlags == getAnswerFlags(currentNode, currentAnswers, state.flags)
              routeFlags == NextStep.nextResult.flagsToSet
              hubFlags == NextStep.hubResult.accumulatedFlags
          IN \A n \in FlagNames :
                (Named(answerFlags, n) /\ Named(routeFlags, n) /\ ~Named(hubFlags, n))
                   => Get(state'.flags, n) = LastValue(routeFlags, n) ]_vars

\* a committed step whose answer flag and route flag name the same flag with
\* different values, no hub in between: the store holds the route's value
C2_Witness ==
    /\ Committed
    /\ LET node == decisionTree.nodes[LastEntry.nodeId]
           answerFlags == getAnswerFlags(node, LastEntry.answers, LastEntry.flags)
           withAnswer == applyFlags(LastEntry.flags,
                            getAllFlagsForAnswer(node, LastEntry.answers, LastEntry.flags))
           routeFlags == evaluateRouting(node, LastEntry.answers, withAnswer).flagsToSet
       IN \E n \in FlagNames :
             /\ Named(answerFlags, n) /\ Named(routeFlags, n)
             /\ LastValue(answerFlags, n) # LastValue(routeFlags, n)
             /\ Get(state.flags, n) = LastValue(routeFlags, n)

C4_GoBackOnEmptyIsNoOp ==
    [][ (lastOp'.op = "handleBack" /\ Len(historyStack) = 0) =>
          /\ lastOp'.ret = "false"
          /\ state' = state
          /\ historyStack' = historyStack ]_vars

\* go_back has been refused on an empty stack while an answer was recorded
C4_Witness ==
    /\ lastOp.op = "handleBack" /\ lastOp.ret = "false"
    /\ Len(historyStack) = 0 /\ Len(state.history) = 0
    /\ state.answers # <<>>

\* C5 as the documentation states it: flags are not rolled back on back
\* navigation, so every flag set before go_back is still set, with the same
\* value, after it.
C5_FlagsSurviveGoBack ==
    [][ (lastOp'.op = "handleBack" /\ lastOp'.ret = "true") =>
          \A n \in DOMAIN state.flags :
             n \in DOMAIN state'.flags /\ state'.flags[n] = state.flags[n] ]_vars

\* a hub reached by the step, standing without a route that matches
StoppedAtDeadHub ==
    /\ Committed
    /\ currentNode # NULL
    /\ isHubNode(currentNode)
    /\ evaluateHubNode(currentNode, state.flags) = NULL

\* C9 as stated: when the answered node, or a hub reached during hub
\* resolution, has no matching route, submit_answer ends in an error raised
\* to its caller instead of a normal return.
C9_RoutingFailureSurfaced ==
    (lastOp.op = "handleNext" /\ (lastOp.outcome = "noRoute" \/ StoppedAtDeadHub))
        => lastOp.ret = "error"

\* what validate rejects, from the rules of the data model: a required
\* question left empty, several indices on a single_choice question, a
\* selection size outside the rule's bounds, an exclusive index combined
\* with another one
Rejected(question, selection, rule) ==
    \/ question.required /\ Len(selection) = 0
    \/ question.type = "single_choice" /\ Len(selection) > 1
    \/ rule # NULL /\ rule.min_selections > 0 /\ Len(selection) < rule.min_selections
    \/ rule # NULL /\ "max_selections" \in DOMAIN rule
         /\ rule.max_selections > 0 /\ Len(selection) > rule.max_selections
    \/ /\ Len(selection) > 1
       /\ \E i \in 1..Len(selection) : \E k \in 1..Len(question.options) :
             OptionExclusive(question.options[k]) /\ question.options[k].id = selection[i]

\* C10: when validate rejects the submitted selection, submit_answer hands
\* back the errors and changes neither current node, Answers, Flags,
\* history, completion flag nor the undo stack, so a later valid submission
\* starts from the state the rejected one found.
C10_RejectedSubmitChangesNothing ==
    [][ (/\ lastOp'.op = "handleNext"
         /\ currentQuestion # NULL
         /\ Rejected(currentQuestion, currentAnswers, currentRule)) =>
          /\ state' = state
          /\ historyStack' = historyStack
          /\ Len(validationErrors') > 0
          /\ validationErrors' =
                validateAnswer(currentQuestion, currentAnswers, currentRule).errors ]_vars

\* a submission has been rejected after at least one committed step
C10_Witness ==
    /\ lastOp.op = "handleNext" /\ lastOp.outcome = "invalid"
    /\ Len(validationErrors) > 0
    /\ Len(historyStack) > 0
    /\ Rejected(currentQuestion, currentAnswers, currentRule)

(***************************************************************************)
(* evaluateRouting on its own (SpecRoute): the inputs are drawn from the   *)
(* nodes of the tree, the selections over three options and every Flags    *)
(* value over FlagNames.                                                   *)
(***************************************************************************)
\* selections without repeated index, in any order
Selections ==
    {sel \in UNION {[1..k -> 0..MaxOption] : k \in 0..(MaxOption + 1)} :
        \A i, j \in 1..Len(sel) : i # j => sel[i] # sel[j]}

AllFlags == UNION {[names -> FlagValues] : names \in SUBSET FlagNames}

InitRoute ==
    /\ call \in [fn : {"input"}, node : NodeIds, selectedAnswers : Selections,
                 flags : AllFlags]
    /\ state = initialState
    /\ historyStack = <<>>
    /\ validationErrors = <<>>
    /\ lastOp = Op("none", "void", "", "")
    /\ hub = IdleHub

callEvaluateRouting ==
    /\ call.fn = "input"
    /\ call' = [fn |-> "evaluateRouting", node |-> call.node,
                selectedAnswers |-> call.selectedAnswers, flags |-> call.flags,
                result |-> evaluateRouting(decisionTree.nodes[call.node],
                                           call.selectedAnswers, call.flags)]
    /\ UNCHANGED <<state, historyStack, validationErrors, lastOp, hub>>

NextRoute == callEvaluateRouting

SpecRoute == InitRoute /\ [][NextRoute]_vars

\* the routes of the called node whose conditions all hold for the call
MatchingRoutes ==
    LET routing == decisionTree.nodes[call.node].routing IN
    {i \in 1..Len(routing) :
        \A k \in 1..(IF "conditions" \in DOMAIN routing[i]
                     THEN Len(routing[i].conditions) ELSE 0) :
           evaluateCondition(routing[i].conditions[k], call.selectedAnswers, call.flags)}

FirstMatching == CHOOSE i \in MatchingRoutes : \A j \in MatchingRoutes : i <= j

\* C1: route returns the destination and the flags-to-set of the first route
\* in declaration order whose conditions all hold, and NONE exactly when no
\* route's conditions hold.
C1_FirstMatchingRouteWins ==
    call.fn = "evaluateRouting" =>
        LET routing == decisionTree.nodes[call.node].routing IN
        IF MatchingRoutes = {}
        THEN call.result = NULL
        ELSE /\ call.result # NULL
             /\ call.result.nextNodeId = routing[FirstMatching].go_to
             /\ call.result.flagsToSet =
                   (IF "set_flags" \in DOMAIN routing[FirstMatching]
                    THEN routing[FirstMatching].set_flags ELSE <<>>)

\* several routes match, the first of them is not the first route declared
\* and leads elsewhere than the last one, and the first one was returned
C1_Witness ==
    /\ call.fn = "evaluateRouting"
    /\ Cardinality(MatchingRoutes) >= 2
    /\ FirstMatching > 1
    /\ LET routing == decisionTree.nodes[call.node].routing IN
       /\ \E j \in MatchingRoutes : routing[j].go_to # routing[FirstMatching].go_to
       /\ call.result.nextNodeId = routing[FirstMatching].go_to

(***************************************************************************)
(* The store on its own (SpecStore): the operations useWizardState         *)
(* returns, called in any order with arguments from small sets.            *)
(***************************************************************************)
StoreNodeIds == {"Q1", "END"}
StoreFlagLists == { << SetFlag("fa", BTrue) >>, << SetFlag("fa", BFalse) >> }
StoreAnswers == { <<0>> }

storeSetCurrentNode ==
    /\ \E nodeId \in StoreNodeIds : state' = setCurrentNode(state, nodeId)
    /\ lastOp' = Op("setCurrentNode", "void", "", "")
    /\ UNCHANGED <<historyStack, validationErrors, call, hub>>

storeSetAnswer ==
    /\ \E answers \in StoreAnswers : state' = setAnswer(state, qid_1, answers)
    /\ lastOp' = Op("setAnswer", "void", "", "")
    /\ UNCHANGED <<historyStack, validationErrors, call, hub>>

storeApplyFlags ==
    /\ \E flagsToSet \in StoreFlagLists : state' = applyFlagsToState(state, flagsToSet)
    /\ lastOp' = Op("applyFlags", "void", "", "")
    /\ UNCHANGED <<historyStack, validationErrors, call, hub>>

storeAddToHistory ==
    /\ Len(historyStack) < MaxSnapshots
    /\ \E answers \in StoreAnswers :
          historyStack' = addToHistoryStack(historyStack, state.currentNodeId,
                                            answers, state.flags)
    /\ state' = addToHistoryState(state, state.currentNodeId)
    /\ lastOp' = Op("addToHistory", "void", "", "")
    /\ UNCHANGED <<validationErrors, call, hub>>

storeGoBack ==
    /\ LET back == goBack(state, historyStack) IN
       /\ historyStack' = back.historyStack
       /\ state' = back.state
       /\ lastOp' = Op("goBack", back.ret, "", "")
    /\ UNCHANGED <<validationErrors, call, hub>>

storeCompleteWizard ==
    /\ state' = completeWizard(state)
    /\ lastOp' = Op("completeWizard", "void", "", "")
    /\ UNCHANGED <<historyStack, validationErrors, call, hub>>

storeResetWizard ==
    /\ state' = resetWizard(state, historyStack).state
    /\ historyStack' = resetWizard(state, historyStack).historyStack
    /\ lastOp' = Op("resetWizard", "void", "", "")
    /\ UNCHANGED <<validationErrors, call, hub>>

InitStore ==
    /\ state = initialState
    /\ historyStack = <<>>
    /\ validationErrors = <<>>
    /\ lastOp = Op("none", "void", "", "")
    /\ call = IdleCall
    /\ hub = IdleHub

NextStore ==
    \/ storeSetCurrentNode
    \/ storeSetAnswer
    \/ storeApplyFlags
    \/ storeAddToHistory
    \/ storeGoBack
    \/ storeCompleteWizard
    \/ storeResetWizard

SpecStore == InitStore /\ [][NextStore]_vars

\* C6 as stated: in every state the store operations reach, the completion
\* flag is true if and only if the current node id is "END".
C6_CompleteIffAtEnd == state.isComplete <=> (state.currentNodeId = "END")

(***************************************************************************)
(* processHubNodes pass by pass (SpecHubs): it is started on any node id,  *)
(* the terminal id or an unknown id, with any Flags value.                 *)
(***************************************************************************)
HubStartIds == NodeIds \cup {"END", "MISSING"}

InitHubs ==
    /\ hub \in {HubStart(startNodeId, flags) : startNodeId \in HubStartIds,
                                                flags \in AllFlags}
    /\ state = initialState
    /\ historyStack = <<>>
    /\ validationErrors = <<>>
    /\ lastOp = Op("none", "void", "", "")
    /\ call = IdleCall

hubPass ==
    /\ hub.pc = "loop"
    /\ hub' = HubPass(hub)
    /\ UNCHANGED <<state, historyStack, validationErrors, lastOp, call>>

NextHubs == hubPass

SpecHubs == InitHubs /\ [][NextHubs]_vars

\* the loop runs whenever it has not returned; nothing else is scheduled
FairSpecHubs == SpecHubs /\ WF_vars(hubPass)

\* C7: resolve_hubs terminates for every tree and start node, hub cycles
\* included, after at most 50 hops: every pass either returns or consumes
\* one of the 50 iterations, no pass goes beyond them, and the loop returns.
C7_HubLoopTerminatesWithinCap ==
    /\ [][ hub.pc = "loop" =>
             /\ hub'.pc = "return" \/ hub'.iterations = hub.iterations + 1
             /\ hub'.iterations <= maxIterations
             /\ hub'.hops <= maxIterations ]_vars
    /\ <>(hub.pc = "return")

\* the loop has returned from a hub cycle after all 50 hops
C7_Witness ==
    /\ hub.pc = "return"
    /\ hub.hops = maxIterations
    /\ hub.currentNodeId \in {"CYC1", "CYC2"}

\* the loop was stopped by its cap on a hub that still has a matching route
StoppedByCap ==
    /\ hub.pc = "return"
    /\ hub.iterations = maxIterations
    /\ hub.currentNodeId \in NodeIds
    /\ isHubNode(decisionTree.nodes[hub.currentNodeId])
    /\ evaluateHubNode(decisionTree.nodes[hub.currentNodeId], hub.currentFlags) # NULL

\* C8 as stated: a stop by the 50-hop cap on a hub is reported (an error,
\* a log entry or a counter), unlike a normal stop.
C8_CapStopReported == StoppedByCap => Len(hub.console) > 0

(***************************************************************************)
(* Where the wizard stands (Spec)                                          *)
(***************************************************************************)
\* the hub chain that starts at nodeId with these flags is sound: it leaves
\* the hubs (every hub on it has a matching route) before the 50-hop cap
ChainLeavesHubs(nodeId, flags) ==
    LET final == processHubNodes(nodeId, flags).finalNodeId IN
    final \notin NodeIds \/ ~isHubNode(decisionTree.nodes[final])

\* C11 as stated: in every state reached by submit, go back and restart from
\* the session start, the current node of the store is not a hub node
\* (declared type hub, or question id containing "hub"), provided the hubs
\* ahead all have a matching route and the chain stays below 50 hops.
C11_NeverStandsOnHub ==
    (currentNode # NULL /\ ChainLeavesHubs(state.currentNodeId, state.flags))
        => ~isHubNode(currentNode)

\* C11, amended: a successful submit never commits a hub node whose chain is
\* sound, and neither does go back; the store stands on such a hub only
\* right after the session start or a restart, when the current node is the
\* declared start node whatever its kind.
C11_StandsOnHubOnlyAtStart ==
    (/\ currentNode # NULL
     /\ ChainLeavesHubs(state.currentNodeId, state.flags)
     /\ isHubNode(currentNode))
        => /\ lastOp.op \in {"mount", "handleRestart"}
           /\ state.currentNodeId = decisionTree.start
           /\ historyStack = <<>>

\* a submit at Q2 was routed into the hub chain HUBA -> H2 and committed the
\* question behind it, with the flags of both hops
C11_Witness ==
    /\ Committed
    /\ LastEntry.nodeId = "Q2"
    /\ state.currentNodeId = "Q3"
    /\ ~isHubNode(currentNode)
    /\ Get(state.flags, "fb") = Str("hub")
    /\ Get(state.flags, "fc") = BFalse

(***************************************************************************)
(* Flags along a hub chain (SpecHubs)                                      *)
(***************************************************************************)
\* the routes of the hub the loop stands on that hold for the empty
\* selection and the working copy of the flags
HubMatching ==
    LET routing == decisionTree.nodes[hub.currentNodeId].routing IN
    {i \in 1..Len(routing) :
        \A k \in 1..(IF "conditions" \in DOMAIN routing[i]
                     THEN Len(routing[i].conditions) ELSE 0) :
           evaluateCondition(routing[i].conditions[k], <<>>, hub.currentFlags)}

HubWinner ==
    decisionTree.nodes[hub.currentNodeId].routing[
        CHOOSE i \in HubMatching : \A j \in HubMatching : i <= j]

\* C12: within one call of resolve_hubs every hop follows the first route that
\* holds for the working copy of the flags, the hop's flags are merged into
\* that copy before the next hop is evaluated, and they are appended to the
\* accumulated list, which therefore holds every hop's flags in hop order.
C12_LaterHopsSeeEarlierFlags ==
    [][ (hub.pc = "loop" /\ hub'.hops = hub.hops + 1) =>
          LET hopFlags == IF "set_flags" \in DOMAIN HubWinner
                          THEN HubWinner.set_flags ELSE <<>>
          IN /\ hub'.currentNodeId = HubWinner.go_to
             /\ hub'.accumulatedFlags = hub.accumulatedFlags \o hopFlags
             /\ \A n \in FlagNames :
                   Get(hub'.currentFlags, n) =
                       IF Named(hopFlags, n) THEN LastValue(hopFlags, n)
                       ELSE Get(hub.currentFlags, n) ]_vars

\* the chain HUBA -> H2 -> Q3 has returned: H2's second route asks for
\* fb = "hub", the value HUBA's route set one hop earlier, and the list holds
\* HUBA's flag before H2's
C12_Witness ==
    /\ hub.pc = "return"
    /\ hub.hops = 2
    /\ hub.currentNodeId = "Q3"
    /\ hub.accumulatedFlags = << SetFlag("fb", Str("hub")), SetFlag("fc", BFalse) >>
    /\ Get(hub.currentFlags, "fb") = Str("hub")

(***************************************************************************)
(* Reset (SpecStore)                                                       *)
(***************************************************************************)
\* C13: from any state of the store, reset yields the initial state (current
\* node the declared start node, answers, flags and history empty, undo
\* stack empty, completion flag false), and a go back right after it returns
\* false and changes nothing.
C13_ResetYieldsInitialState ==
    [][ /\ lastOp'.op = "resetWizard" =>
             /\ state' = [currentNodeId |-> decisionTree.start, answers |-> <<>>,
                          flags |-> <<>>, history |-> <<>>, isComplete |-> FALSE]
             /\ historyStack' = <<>>
        /\ (lastOp.op = "resetWizard" /\ lastOp'.op = "goBack") =>
             /\ lastOp'.ret = "false"
             /\ state' = state
             /\ historyStack' = historyStack ]_vars

\* a go back has just returned false on the store a reset left behind
C13_Witness ==
    /\ lastOp.op = "goBack"
    /\ lastOp.ret = "false"
    /\ state.currentNodeId = decisionTree.start
    /\ state.answers = <<>> /\ state.flags = <<>> /\ state.history = <<>>
    /\ ~state.isComplete
    /\ historyStack = <<>>

(***************************************************************************)
(* The condition evaluator on its own (SpecCond): evaluateCondition is     *)
(* called with every single-predicate condition over the index lists and   *)
(* the flags, and with the condition that has no predicate.                *)
(***************************************************************************)
\* a condition's index list names each index once
SelectionConditions ==
    {[answer_is |-> i] : i \in 0..MaxOption}
    \cup {[is_this_exact_match_selected |-> S] : S \in Selections}
    \cup {[if_any_answer_in |-> S] : S \in Selections}
    \cup {[if_none_selected_in |-> S] : S \in Selections}

FlagConditions == {FlagEq(n, v) : n \in FlagNames, v \in FlagValues}

\* a condition object with no predicate field
NoPredicate == <<>>

\* the conditions a route handed to evaluateAllConditions is built from
SampleConditions ==
    {[answer_is |-> 0], [if_none_selected_in |-> <<1>>], FlagEq("fa", BTrue),
     NoPredicate}

\* routes with no condition list, an empty one, and lists of sample conditions
RouteInputs ==
    {[go_to |-> "END"]}
    \cup {[conditions |-> c, go_to |-> "END"] :
              c \in UNION {[1..k -> SampleConditions] : k \in 0..MaxConditions}}

\* the Flags values over the one flag the sample conditions read
FaFlags == UNION {[names -> FlagValues] : names \in SUBSET {"fa"}}

InitCond ==
    /\ \/ call \in [fn : {"inputCondition"}, condition : SelectionConditions,
                    selectedAnswers : Selections,
                    flags : {<<>>, [n \in {"fa"} |-> BTrue]}]
       \/ call \in [fn : {"inputCondition"},
                    condition : FlagConditions \cup {NoPredicate},
                    selectedAnswers : {<<>>, <<0>>}, flags : AllFlags]
       \/ call \in [fn : {"inputRoute"}, route : RouteInputs,
                    selectedAnswers : Selections, flags : FaFlags]
    /\ state = initialState
    /\ historyStack = <<>>
    /\ validationErrors = <<>>
    /\ lastOp = Op("none", "void", "", "")
    /\ hub = IdleHub

callEvaluateCondition ==
    /\ call.fn = "inputCondition"
    /\ call' = [fn |-> "evaluateCondition", condition |-> call.condition,
                selectedAnswers |-> call.selectedAnswers, flags |-> call.flags,
                result |-> evaluateCondition(call.condition, call.selectedAnswers,
                                             call.flags)]
    /\ UNCHANGED <<state, historyStack, validationErrors, lastOp, hub>>

callEvaluateAllConditions ==
    /\ call.fn = "inputRoute"
    /\ call' = [fn |-> "evaluateAllConditions", route |-> call.route,
                selectedAnswers |-> call.selectedAnswers, flags |-> call.flags,
                result |-> evaluateAllConditions(call.route, call.selectedAnswers,
                                                 call.flags)]
    /\ UNCHANGED <<state, historyStack, validationErrors, lastOp, hub>>

NextCond == callEvaluateCondition \/ callEvaluateAllConditions

SpecCond == InitCond /\ [][NextCond]_vars

\* the indices an index list holds
Members(arr) == {arr[i] : i \in 1..Len(arr)}

\* C14: an exact-match(S) condition holds if and only if the selection and S
\* have the same number of indices and the same members, in whatever order
\* the selection lists them; a strict superset or subset of S does not match.
C14_ExactMatchIsSetEquality ==
    (call.fn = "evaluateCondition"
     /\ "is_this_exact_match_selected" \in DOMAIN call.condition) =>
        LET S == Members(call.condition.is_this_exact_match_selected)
            sel == Members(call.selectedAnswers)
        IN /\ call.result = (Cardinality(sel) = Cardinality(S) /\ sel = S)
           /\ (sel # S /\ (S \subseteq sel \/ sel \subseteq S)) => ~call.result

\* requirement [0,2] was matched by the selection [2,0]
C14_Witness ==
    /\ call.fn = "evaluateCondition"
    /\ call.condition = [is_this_exact_match_selected |-> <<0, 2>>]
    /\ call.selectedAnswers = <<2, 0>>
    /\ call.result = TRUE

\* C15: a flag-equals(name, v) condition holds only when the flag is set and
\* holds v with the same type and the same value; a flag never set does not
\* satisfy flag-equals(name, false), a flag holding the string "true" does
\* not satisfy flag-equals(name, true).
C15_FlagEqualsIsStrict ==
    (call.fn = "evaluateCondition" /\ "flag_equals" \in DOMAIN call.condition) =>
        LET name == call.condition.flag_equals.flag_name
            v == call.condition.flag_equals.value
        IN /\ call.result =
                 (/\ name \in DOMAIN call.flags
                  /\ call.flags[name].type = v.type
                  /\ call.flags[name].val = v.val)
           /\ (name \notin DOMAIN call.flags /\ v = BFalse) => ~call.result
           /\ (name \in DOMAIN call.flags /\ call.flags[name] = Str("true")
               /\ v = BTrue) => ~call.result

\* flag-equals(fa, false) was refused for flags in which fa was never set
C15_Witness ==
    /\ call.fn = "evaluateCondition"
    /\ call.condition = FlagEq("fa", BFalse)
    /\ "fa" \notin DOMAIN call.flags
    /\ "fb" \in DOMAIN call.flags
    /\ call.result = FALSE

\* C16: answer-is(i) holds iff i is in the selection, any-in(S) iff the
\* selection and S share an index, none-in(S) iff they share none; any-in(S)
\* and none-in(S) are each other's negation for every selection and every S,
\* the empty ones included.
C16_AnyAndNoneAreComplements ==
    call.fn = "evaluateCondition" =>
        LET sel == Members(call.selectedAnswers) IN
        /\ "answer_is" \in DOMAIN call.condition =>
              call.result = (call.condition.answer_is \in sel)
        /\ "if_any_answer_in" \in DOMAIN call.condition =>
              /\ call.result = (sel \cap Members(call.condition.if_any_answer_in) # {})
              /\ call.result =
                    ~evaluateCondition(
                        [if_none_selected_in |-> call.condition.if_any_answer_in],
                        call.selectedAnswers, call.flags)
        /\ "if_none_selected_in" \in DOMAIN call.condition =>
              /\ call.result = (sel \cap Members(call.condition.if_none_selected_in) = {})
              /\ call.result =
                    ~evaluateCondition(
                        [if_any_answer_in |-> call.condition.if_none_selected_in],
                        call.selectedAnswers, call.flags)

\* none-in([0,1]) was refused for a selection that holds one of the two
C16_Witness ==
    /\ call.fn = "evaluateCondition"
    /\ call.condition = [if_none_selected_in |-> <<0, 1>>]
    /\ call.selectedAnswers = <<2, 1>>
    /\ call.result = FALSE

\* C17: evaluate_all is true if and only if every condition of the route's
\* list is true; it is true when the list is absent or empty; a condition
\* with no predicate field is true for every selection and every flags
\* value, so a route without conditions always matches.
C17_AllConditionsIsConjunction ==
    /\ call.fn = "evaluateAllConditions" =>
          LET conditions == IF "conditions" \in DOMAIN call.route
                            THEN call.route.conditions ELSE <<>>
          IN /\ call.result =
                   (\A k \in 1..Len(conditions) :
                       evaluateCondition(conditions[k], call.selectedAnswers,
                                         call.flags))
             /\ Len(conditions) = 0 => call.result
             /\ (\A k \in 1..Len(conditions) : DOMAIN conditions[k] = {})
                   => call.result
    /\ (call.fn = "evaluateCondition" /\ DOMAIN call.condition = {}) => call.result

\* a list whose first condition holds and whose second does not was refused
C17_Witness ==
    /\ call.fn = "evaluateAllConditions"
    /\ "conditions" \in DOMAIN call.route
    /\ call.route.conditions = << [answer_is |-> 0], FlagEq("fa", BTrue) >>
    /\ call.selectedAnswers = <<0>>
    /\ call.flags = [n \in {"fa"} |-> BFalse]
    /\ call.result = FALSE

(***************************************************************************)
(* getAnswerFlags on its own (SpecAnswerFlags): it is called on a node     *)
(* whose options carry unconditional, conditional and no flag entries, and *)
(* on a node without answer_flags, with every selection and Flags value.   *)
(***************************************************************************)
answerFlagsNode ==
    [question_id |-> qid_2, type |-> "checkbox", routing |-> << [go_to |-> "END"] >>,
     answer_flags |->
       [i \in {0, 1, 2} |->
          IF i = 0 THEN [set_flags |-> << SetFlag("fa", BTrue) >>]
          ELSE IF i = 1
          THEN [set_flags |->
                  << [flag_name |-> "fb", value |-> Str("true"),
                      condition |-> << FlagEq("fa", BTrue) >>],
                     [flag_name |-> "fc", value |-> BTrue,
                      condition |-> << [answer_is |-> 2], FlagEq("fb", BFalse) >>],
                     [flag_name |-> "fa", value |-> BFalse, condition |-> <<>>] >>]
          ELSE [exclusive |-> TRUE]]]

AnswerFlagNodes == {answerFlagsNode, decisionTree.nodes["Q3"]}

InitAnswerFlags ==
    /\ call \in [fn : {"input"}, node : AnswerFlagNodes,
                 selectedAnswers : Selections, flags : AllFlags]
    /\ state = initialState
    /\ historyStack = <<>>
    /\ validationErrors = <<>>
    /\ lastOp = Op("none", "void", "", "")
    /\ hub = IdleHub

callGetAnswerFlags ==
    /\ call.fn = "input"
    /\ call' = [fn |-> "getAnswerFlags", node |-> call.node,
                selectedAnswers |-> call.selectedAnswers, flags |-> call.flags,
                result |-> getAnswerFlags(call.node, call.selectedAnswers, call.flags)]
    /\ UNCHANGED <<state, historyStack, validationErrors, lastOp, hub>>

NextAnswerFlags == callGetAnswerFlags

SpecAnswerFlags == InitAnswerFlags /\ [][NextAnswerFlags]_vars

\* every nested flag-equality condition of the entry holds for the flags the
\* call was given
EntryHolds(entry) ==
    \A k \in 1..(IF "condition" \in DOMAIN entry THEN Len(entry.condition) ELSE 0) :
        "flag_equals" \in DOMAIN entry.condition[k] =>
            /\ entry.condition[k].flag_equals.flag_name \in DOMAIN call.flags
            /\ call.flags[entry.condition[k].flag_equals.flag_name]
                  = entry.condition[k].flag_equals.value

\* the flag entries of one option, empty when the option has none
EntriesOf(option) ==
    IF "answer_flags" \in DOMAIN call.node
       /\ option \in DOMAIN call.node.answer_flags
       /\ "set_flags" \in DOMAIN call.node.answer_flags[option]
    THEN call.node.answer_flags[option].set_flags
    ELSE <<>>

\* the entries of the selected options that hold, per option in selection
\* order and per entry in declaration order
RECURSIVE HeldEntriesFrom(_)
HeldEntriesFrom(i) ==
    IF i > Len(call.selectedAnswers) THEN <<>>
    ELSE SelectSeq(EntriesOf(call.selectedAnswers[i]), EntryHolds)
            \o HeldEntriesFrom(i + 1)

\* C18: answer_flags emits a flag entry of a selected option if and only if
\* all nested flag-equality conditions of that entry hold for the flags as
\* they were before the step; what other options of the selection emit does
\* not count, and an entry without nested conditions is always emitted.
C18_EntriesCheckedAgainstFlagsBefore ==
    call.fn = "getAnswerFlags" =>
        /\ Len(call.result) = Len(HeldEntriesFrom(1))
        /\ \A i \in 1..Len(call.result) :
              call.result[i] = SetFlag(HeldEntriesFrom(1)[i].flag_name,
                                       HeldEntriesFrom(1)[i].value)

\* options 0 and 1 were selected with fa not set before: option 0 emitted
\* fa = true, option 1's entry asking for fa = true was still left out and
\* its entry with an empty condition list was emitted
C18_Witness ==
    /\ call.fn = "getAnswerFlags"
    /\ call.node = answerFlagsNode
    /\ call.selectedAnswers = <<0, 1>>
    /\ "fa" \notin DOMAIN call.flags
    /\ call.result = << SetFlag("fa", BTrue), SetFlag("fa", BFalse) >>

(***************************************************************************)
(* validateAnswer on its own (SpecValidate): questions of both types,      *)
(* required or not, with and without an exclusive last option; every       *)
(* selection; no rule, a rule with a lower bound, a rule with both bounds. *)
(***************************************************************************)
PlainOptions == [k \in 1..(MaxOption + 1) |-> Opt(k - 1)]

\* the last option is the exclusive one ("None of the above")
OptionsWithExclusive ==
    [k \in 1..(MaxOption + 1) |->
        IF k = MaxOption + 1 THEN ExclusiveOpt(k - 1) ELSE Opt(k - 1)]

SampleQuestions ==
    [id : {qid_2}, type : {"single_choice", "multiple_choice"}, required : BOOLEAN,
     options : {PlainOptions, OptionsWithExclusive}]

SampleRules ==
    {NULL}
    \cup {[min_selections |-> m] : m \in 0..(MaxOption + 1)}
    \cup {[min_selections |-> m, max_selections |-> n] :
             m \in 0..(MaxOption + 1), n \in 0..MaxOption}

InitValidate ==
    /\ call \in [fn : {"input"}, question : SampleQuestions,
                 selectedAnswers : Selections, validationRule : SampleRules]
    /\ state = initialState
    /\ historyStack = <<>>
    /\ validationErrors = <<>>
    /\ lastOp = Op("none", "void", "", "")
    /\ hub = IdleHub

callValidateAnswer ==
    /\ call.fn = "input"
    /\ call' = [fn |-> "validateAnswer", question |-> call.question,
                selectedAnswers |-> call.selectedAnswers,
                validationRule |-> call.validationRule,
                result |-> validateAnswer(call.question, call.selectedAnswers,
                                          call.validationRule)]
    /\ UNCHANGED <<state, historyStack, validationErrors, lastOp, hub>>

NextValidate == callValidateAnswer

SpecValidate == InitValidate /\ [][NextValidate]_vars

\* C19: the first two checks are fatal.  A required question with an empty
\* selection is invalid with exactly one error; otherwise a single_choice
\* question with more than one index selected is invalid with exactly one
\* error; in both cases no rule-bound and no exclusivity error is added.
C19_FirstTwoChecksAreFatal ==
    call.fn = "validateAnswer" =>
        /\ (call.question.required /\ Len(call.selectedAnswers) = 0) =>
              /\ ~call.result.isValid
              /\ call.result.errors = << "Please select at least one option" >>
        /\ (/\ ~(call.question.required /\ Len(call.selectedAnswers) = 0)
            /\ call.question.type = "single_choice"
            /\ Len(call.selectedAnswers) > 1) =>
              /\ ~call.result.isValid
              /\ call.result.errors = << "Please select only one option" >>

\* a single_choice question got the exclusive option together with another
\* one, more than its rule allows, and only the single-choice error came back
C19_Witness ==
    /\ call.fn = "validateAnswer"
    /\ call.question.type = "single_choice"
    /\ call.question.options = OptionsWithExclusive
    /\ call.selectedAnswers = <<0, MaxOption>>
    /\ call.validationRule = [min_selections |-> 1, max_selections |-> 1]
    /\ call.result = [isValid |-> FALSE,
                      errors |-> << "Please select only one option" >>]

\* an index marked exclusive is selected together with another one, on a
\* question that passes the first two checks
ExclusiveCombined ==
    /\ call.fn = "validateAnswer"
    /\ ~(call.question.required /\ Len(call.selectedAnswers) = 0)
    /\ ~(call.question.type = "single_choice" /\ Len(call.selectedAnswers) > 1)
    /\ Len(call.selectedAnswers) > 1
    /\ \E i \in 1..Len(call.selectedAnswers) :
          \E k \in 1..Len(call.question.options) :
             /\ OptionExclusive(call.question.options[k])
             /\ call.question.options[k].id = call.selectedAnswers[i]

\* C20 as stated: when a selected index is marked exclusive and more than one
\* index is selected, the result is invalid and holds exactly one error, the
\* exclusivity error, also when the selection size violates the rule's
\* min_selections or max_selections.
C20_ExclusivityErrorStandsAlone ==
    ExclusiveCombined =>
        /\ ~call.result.isValid
        /\ call.result.errors =
              << "The selected option cannot be combined with other options" >>

\* neither of the two fatal checks fires for the call
PassesFatalChecks ==
    /\ ~(call.question.required /\ Len(call.selectedAnswers) = 0)
    /\ ~(call.question.type = "single_choice" /\ Len(call.selectedAnswers) > 1)

\* C21 as stated: with a rule and no fatal check fired, the result holds the
\* lower-bound error exactly when the selection is smaller than
\* min_selections and the upper-bound error exactly when it is larger than
\* max_selections (both when both are violated); for every input isValid is
\* true if and only if the error list is empty.
C21_BoundErrorsAndValidity ==
    call.fn = "validateAnswer" =>
        /\ call.result.isValid <=> (call.result.errors = <<>>)
        /\ (call.validationRule # NULL /\ PassesFatalChecks) =>
              /\ Includes(call.result.errors,
                          "Please select at least min_selections option(s)")
                    <=> Len(call.selectedAnswers) < call.validationRule.min_selections
              /\ Includes(call.result.errors,
                          "Please select at most max_selections option(s)")
                    <=> (/\ "max_selections" \in DOMAIN call.validationRule
                         /\ Len(call.selectedAnswers)
                               > call.validationRule.max_selections)

(***************************************************************************)
(* handleSelectionWithExclusivity on its own (SpecToggle): every sample    *)
(* question, every current selection, every option index toggled.          *)
(***************************************************************************)
InitToggle ==
    /\ call \in [fn : {"input"}, question : SampleQuestions,
                 currentSelection : Selections, toggledOption : 0..MaxOption]
    /\ state = initialState
    /\ historyStack = <<>>
    /\ validationErrors = <<>>
    /\ lastOp = Op("none", "void", "", "")
    /\ hub = IdleHub

callHandleSelectionWithExclusivity ==
    /\ call.fn = "input"
    /\ call' = [fn |-> "handleSelectionWithExclusivity", question |-> call.question,
                currentSelection |-> call.currentSelection,
                toggledOption |-> call.toggledOption,
                result |-> handleSelectionWithExclusivity(
                               call.question, call.currentSelection,
                               call.toggledOption)]
    /\ UNCHANGED <<state, historyStack, validationErrors, lastOp, hub>>

NextToggle == callHandleSelectionWithExclusivity

SpecToggle == InitToggle /\ [][NextToggle]_vars

\* the option indices of the called question that are marked exclusive
MarkedExclusive ==
    {i \in 0..(Len(call.question.options) - 1) :
        /\ "exclusive" \in DOMAIN call.question.options[i + 1]
        /\ call.question.options[i + 1].exclusive = TRUE}

NotToggled(x) == x # call.toggledOption
NotExclusive(x) == x \notin MarkedExclusive

\* C22: on a multiple_choice question, toggling an index that is not selected
\* gives [toggledIndex] alone when the index is marked exclusive, and
\* otherwise the current selection without its exclusive indices followed by
\* the toggled index; toggling a selected index removes just that index.
C22_MultipleChoiceToggle ==
    (call.fn = "handleSelectionWithExclusivity"
     /\ call.question.type = "multiple_choice") =>
        IF call.toggledOption \in Members(call.currentSelection)
        THEN call.result = SelectSeq(call.currentSelection, NotToggled)
        ELSE IF call.toggledOption \in MarkedExclusive
        THEN call.result = << call.toggledOption >>
        ELSE call.result = Append(SelectSeq(call.currentSelection, NotExclusive),
                                  call.toggledOption)

\* option 1 and the exclusive last option were selected and option 0 was
\* toggled: the exclusive one went, 0 was appended
C22_Witness ==
    /\ call.fn = "handleSelectionWithExclusivity"
    /\ call.question.type = "multiple_choice"
    /\ call.question.options = OptionsWithExclusive
    /\ call.currentSelection = <<1, MaxOption>>
    /\ call.toggledOption = 0
    /\ call.result = <<1, 0>>

\* C23: on a single_choice question, toggling an index that is selected gives
\* the empty selection and toggling any other index gives [toggledIndex],
\* whatever was selected before.
C23_SingleChoiceToggle ==
    (call.fn = "handleSelectionWithExclusivity"
     /\ call.question.type = "single_choice") =>
        IF call.toggledOption \in Members(call.currentSelection)
        THEN call.result = <<>>
        ELSE call.result = << call.toggledOption >>

\* selection [1], toggling 1, gave the empty selection
C23_Witness ==
    /\ call.fn = "handleSelectionWithExclusivity"
    /\ call.question.type = "single_choice"
    /\ call.currentSelection = <<1>>
    /\ call.toggledOption = 1
    /\ call.result = <<>>

(***************************************************************************)
(* The outcome evaluator on its own (SpecOutcomes): getActiveOutcomes is   *)
(* called with every Flags value that gives each outcome flag no value,    *)
(* true, false or the string "true", and the system-role flag no value,    *)
(* true, a mapped role or an unknown role.                                 *)
(***************************************************************************)
OutcomeFlagNames == {outcomes[i].id : i \in 1..Len(outcomes)}

OwnFlags ==
    UNION {[names -> {BTrue, BFalse, Str("true")}] : names \in SUBSET OutcomeFlagNames}

RoleFlags ==
    {<<>>}
    \cup {[n \in {"flag_ai_system_role"} |-> v] :
             v \in {BTrue, Str("provider"), Str("deployer"), Str("importer"),
                    Str("auditor")}}

\* lists of up to MaxOutcomes outcomes of the data, none of them twice
OutcomeLists ==
    {list \in UNION {[1..k -> {outcomes[i] : i \in 1..Len(outcomes)}] :
                        k \in 0..MaxOutcomes} :
        \A i, j \in 1..Len(list) : i # j => list[i] # list[j]}

InitOutcomes ==
    /\ \/ call \in {[fn |-> "inputFlags", flags |-> own @@ role] :
                       own \in OwnFlags, role \in RoleFlags}
       \/ call \in [fn : {"inputOutcomes"}, activeOutcomes : OutcomeLists]
    /\ state = initialState
    /\ historyStack = <<>>
    /\ validationErrors = <<>>
    /\ lastOp = Op("none", "void", "", "")
    /\ hub = IdleHub

callGetActiveOutcomes ==
    /\ call.fn = "inputFlags"
    /\ call' = [fn |-> "getActiveOutcomes", flags |-> call.flags,
                result |-> getActiveOutcomes(call.flags)]
    /\ UNCHANGED <<state, historyStack, validationErrors, lastOp, hub>>

callGroupOutcomesByLevel ==
    /\ call.fn = "inputOutcomes"
    /\ call' = [fn |-> "groupOutcomesByLevel", activeOutcomes |-> call.activeOutcomes,
                result |-> groupOutcomesByLevel(call.activeOutcomes)]
    /\ UNCHANGED <<state, historyStack, validationErrors, lastOp, hub>>

callGetPrimaryRiskLevel ==
    /\ call.fn = "inputOutcomes"
    /\ call' = [fn |-> "getPrimaryRiskLevel", activeOutcomes |-> call.activeOutcomes,
                result |-> getPrimaryRiskLevel(call.activeOutcomes)]
    /\ UNCHANGED <<state, historyStack, validationErrors, lastOp, hub>>

callGetApplicableArticles ==
    /\ call.fn = "inputOutcomes"
    /\ call' = [fn |-> "getApplicableArticles", activeOutcomes |-> call.activeOutcomes,
                result |-> getApplicableArticles(call.activeOutcomes)]
    /\ UNCHANGED <<state, historyStack, validationErrors, lastOp, hub>>

NextOutcomes ==
    \/ callGetActiveOutcomes
    \/ callGroupOutcomesByLevel
    \/ callGetPrimaryRiskLevel
    \/ callGetApplicableArticles

SpecOutcomes == InitOutcomes /\ [][NextOutcomes]_vars

\* the flag of the outcome holds the boolean true in the flags of the call
OwnFlagTrue(outcome) ==
    /\ outcome.id \in DOMAIN call.flags
    /\ call.flags[outcome.id].type = "boolean"
    /\ call.flags[outcome.id].val = "true"

\* the system-role flag of the call is a string naming the outcome's role
NamedByRole(outcome) ==
    /\ "flag_ai_system_role" \in DOMAIN call.flags
    /\ call.flags["flag_ai_system_role"].type = "string"
    /\ \E role \in DOMAIN roleFlagMapping :
          /\ call.flags["flag_ai_system_role"].val = role
          /\ roleFlagMapping[role] = outcome.id

\* C24: active_outcomes never returns an outcome whose is_empty marker is
\* true, through its own flag or through the system-role mapping; an outcome
\* is returned through its own flag only when that flag holds the boolean
\* true; and every non-empty outcome whose flag holds true is returned.
C24_ActiveOutcomesAreNonEmptyAndFlagged ==
    call.fn = "getActiveOutcomes" =>
        /\ \A k \in 1..Len(call.result) :
              /\ ~call.result[k].is_empty
              /\ \E i \in 1..Len(outcomes) : outcomes[i] = call.result[k]
              /\ OwnFlagTrue(call.result[k]) \/ NamedByRole(call.result[k])
        /\ \A i \in 1..Len(outcomes) :
              (OwnFlagTrue(outcomes[i]) /\ ~outcomes[i].is_empty)
                  => \E k \in 1..Len(call.result) : call.result[k] = outcomes[i]

\* the empty deployer outcome has its flag true and is named by the role
\* flag, the gpai flag holds the string "true", the high-risk flag holds
\* true: only the high-risk outcome came back
C24_Witness ==
    /\ call.fn = "getActiveOutcomes"
    /\ Get(call.flags, "flag_ai_system_role_deployer") = BTrue
    /\ Get(call.flags, "flag_ai_system_role") = Str("deployer")
    /\ Get(call.flags, "flag_gpai") = Str("true")
    /\ Get(call.flags, "flag_high_risk") = BTrue
    /\ Len(call.result) = 1
    /\ call.result[1].id = "flag_high_risk"

\* C25: active_outcomes never returns the same outcome twice; a role outcome
\* that is active through its own flag and also named by the system-role
\* flag appears once.
C25_ActiveOutcomesAreDistinct ==
    call.fn = "getActiveOutcomes" =>
        \A j, k \in 1..Len(call.result) :
            j # k => call.result[j].id # call.result[k].id

\* the provider outcome was active through its own flag and named by the
\* system-role flag, and came back once
C25_Witness ==
    /\ call.fn = "getActiveOutcomes"
    /\ Get(call.flags, "flag_ai_system_role_provider") = BTrue
    /\ Get(call.flags, "flag_ai_system_role") = Str("provider")
    /\ Cardinality({k \in 1..Len(call.result) :
                       call.result[k].id = "flag_ai_system_role_provider"}) = 1

\* the place of an outcome in the list the call was given
InputPosition(outcome) ==
    CHOOSE i \in 1..Len(call.activeOutcomes) : call.activeOutcomes[i] = outcome

C27_LowerWeightFirst ==
    call.fn = "groupOutcomesByLevel" =>
        \A level \in DOMAIN call.result :
           \A j, k \in 1..Len(call.result[level]) :
              j < k => call.result[level][j].priority_weight
                          <= call.result[level][k].priority_weight

\* the labels of riskPriority that some outcome of the call carries
LabelsPresent ==
    {i \in 1..Len(riskPriority) :
        \E k \in 1..Len(call.activeOutcomes) :
           call.activeOutcomes[k].risk_level = riskPriority[i]}

\* C28: primary_risk_level returns the first label of the fixed order that
\* is the risk level of some outcome of the list, and general when no
\* outcome carries a label of the order, the empty list included.
C28_PrimaryRiskIsFirstListedLabel ==
    call.fn = "getPrimaryRiskLevel" =>
        /\ riskPriority = << "prohibited", "systemic_risk", "high_risk",
                             "obligations", "transparency_obligations",
                             "open_source_exception", "general", "out_of_scope",
                             "not_applicable", "role_classification" >>
        /\ IF LabelsPresent = {}
           THEN call.result = "general"
           ELSE call.result =
                   riskPriority[CHOOSE i \in LabelsPresent :
                                   \A j \in LabelsPresent : i <= j]

\* a general outcome came before a high-risk one in the list and high_risk
\* was returned
C28_Witness ==
    /\ call.fn = "getPrimaryRiskLevel"
    /\ Len(call.activeOutcomes) >= 2
    /\ call.activeOutcomes[1].risk_level = "general"
    /\ call.activeOutcomes[2].risk_level = "high_risk"
    /\ call.result = "high_risk"

\* C29: applicable_articles returns every article number that occurs in at
\* least one of the outcomes, each once, in strictly ascending order, and no
\* other number.
C29_ArticlesAreSortedUnion ==
    call.fn = "getApplicableArticles" =>
        /\ \A j, k \in 1..Len(call.result) : j < k => call.result[j] < call.result[k]
        /\ \A k \in 1..Len(call.result) :
              \E o \in 1..Len(call.activeOutcomes) :
                 \E a \in 1..Len(call.activeOutcomes[o].applicable_articles) :
                    call.activeOutcomes[o].applicable_articles[a] = call.result[k]
        /\ \A o \in 1..Len(call.activeOutcomes) :
              \A a \in 1..Len(call.activeOutcomes[o].applicable_articles) :
                 \E k \in 1..Len(call.result) :
                    call.result[k] = call.activeOutcomes[o].applicable_articles[a]

\* articles [53, 9] and [6, 9] were merged into [6, 9, 53]
C29_Witness ==
    /\ call.fn = "getApplicableArticles"
    /\ Len(call.activeOutcomes) = 2
    /\ call.activeOutcomes[1].applicable_articles = <<53, 9>>
    /\ call.activeOutcomes[2].applicable_articles = <<6, 9>>
    /\ call.result = <<6, 9, 53>>

(***************************************************************************)
(* What the store's answers hold (Spec)                                    *)
(***************************************************************************)
\* C30 as stated: in every reachable state of the wizard, the selection the
\* store's answers hold for a question is one that validate accepts for that
\* question and its rule.
C30_StoredAnswersPassedValidation ==
    \A questionId \in DOMAIN state.answers :
        validateAnswer(questions[questionId], state.answers[questionId],
                       IF questionId \in DOMAIN validationRules
                       THEN validationRules[questionId] ELSE NULL).isValid

(***************************************************************************)
(* The route a forward step follows and the route flags it applies (Spec)  *)
(***************************************************************************)
\* the store's flags after a step that applies the per-answer flags, then
\* the flags of the route it follows, then the flags of the hub chain
\* behind that route's destination, and nothing else
FollowedRouteFlags(prevFlags, answerFlags, followed) ==
    LET arrived == applyFlags(applyFlags(prevFlags, answerFlags), followed.flagsToSet)
    IN applyFlags(arrived,
                  processHubNodes(followed.nextNodeId, arrived).accumulatedFlags)

\* C31 as stated: in every forward step the route whose set_flags are
\* applied is the route whose destination becomes the next node, also when
\* the per-answer flags of the step change which route matches first; no
\* other route's flags reach the store.
C31_OnlyFollowedRouteFlagsApplied ==
    [][ (lastOp'.op = "handleNext" /\ lastOp'.outcome = "committed") =>
          state'.flags =
             FollowedRouteFlags(state.flags,
                                getAnswerFlags(currentNode, currentAnswers, state.flags),
                                NextStep.nextResult) ]_vars

C33_NoRouteChangesNothing ==
    [][ (/\ lastOp'.op = "handleNext"
         /\ currentNode # NULL /\ currentQuestion # NULL
         /\ validateAnswer(currentQuestion, currentAnswers, currentRule).isValid
         /\ ~NextStep.routed) =>
          /\ state' = state
          /\ historyStack' = historyStack ]_vars

(***************************************************************************)
(* The undo stack and the history list (Spec)                              *)
(***************************************************************************)
\* C34: in every state reached by submits, go_backs and restarts the undo
\* stack and the history list have the same length and history[i] is the
\* node id of the i-th snapshot; go_back succeeds exactly when history is
\* non-empty.
C34_StackMirrorsHistory ==
    /\ [](/\ Len(historyStack) = Len(state.history)
          /\ \A i \in 1..Len(historyStack) :
                state.history[i] = historyStack[i].nodeId)
    /\ [][ lastOp'.op = "handleBack" =>
              (lastOp'.ret = "true" <=> Len(state.history) > 0) ]_vars

\* go_back has succeeded and left two snapshots under two history entries
C34_Witness ==
    /\ lastOp.op = "handleBack" /\ lastOp.ret = "true"
    /\ Len(historyStack) = 2
    /\ state.history = <<"Q1", "Q2">>
    /\ historyStack[2].nodeId = "Q2"

(***************************************************************************)
(* The store's flags and the flags routing has seen (Spec)                 *)
(***************************************************************************)
\* the working copy of the flags processHubNodes holds when it returns
HubWorkingCopy(startNodeId, flags) == HubRun(HubStart(startNodeId, flags)).currentFlags

\* C35 as stated: after a successful submit_answer the Flags in the store
\* are the hub resolver's final working copy, and that copy is the pre-step
\* flags overwritten in order by the per-answer flags, the flags of the
\* winning route and the flags accumulated by the hub chain.
C35_StoreFlagsAreResolverFlags ==
    [][ (lastOp'.op = "handleNext" /\ lastOp'.outcome = "committed") =>
          LET answerFlags == getAnswerFlags(currentNode, currentAnswers, state.flags)
              winner == NextStep.nextResult
              resolved == HubWorkingCopy(winner.nextNodeId, NextStep.updatedFlags)
          IN /\ state'.flags = resolved
             /\ resolved =
                  applyFlags(
                     applyFlags(applyFlags(state.flags, answerFlags), winner.flagsToSet),
                     NextStep.hubResult.accumulatedFlags) ]_vars

(***************************************************************************)
(* Flags across a forward step (Spec)                                      *)
(***************************************************************************)
\* C36: a successful forward step never removes a flag: every flag name
\* present before the submit is present after it, and a flag's value changes
\* only when the combined flag list of the step names it; a flag disappears
\* only through go_back or restart.
C36_ForwardStepKeepsFlags ==
    [][ /\ (lastOp'.op = "handleNext" /\ lastOp'.outcome = "committed") =>
              LET combined == NextStep.flagsToSet \o NextStep.nextResult.flagsToSet
                                 \o NextStep.hubResult.accumulatedFlags
              IN /\ DOMAIN state.flags \subseteq DOMAIN state'.flags
                 /\ \A n \in FlagNames :
                       Get(state'.flags, n) # Get(state.flags, n) => Named(combined, n)
        /\ ~(DOMAIN state.flags \subseteq DOMAIN state'.flags) =>
              lastOp'.op \in {"handleBack", "handleRestart"} ]_vars

\* a committed step from a store that held flags: one of them is kept with
\* its value, another one has been given a new value
C36_Witness ==
    /\ Committed
    /\ \E n \in DOMAIN LastEntry.flags : state.flags[n] = LastEntry.flags[n]
    /\ \E m \in DOMAIN LastEntry.flags : state.flags[m] # LastEntry.flags[m]

(***************************************************************************)
(* A selection built by option clicks (SpecToggleSeq): one sample          *)
(* question, the selection starting empty, every click handing the         *)
(* selection held so far to handleSelectionWithExclusivity; the selection  *)
(* can be validated at any point, without a rule or under one.             *)
(***************************************************************************)
ToggleRules == {NULL, [min_selections |-> 1, max_selections |-> 2]}

InitToggleSeq ==
    /\ call \in [fn : {"toggling"}, question : SampleQuestions, selection : {<<>>},
                 toggled : {<<>>}, validationRule : {NULL}, result : {NULL}]
    /\ state = initialState
    /\ historyStack = <<>>
    /\ validationErrors = <<>>
    /\ lastOp = Op("none", "void", "", "")
    /\ hub = IdleHub

\* QuestionRenderer.handleOptionClick on the selection held so far
toggleOption(optionIndex) ==
    /\ call.fn = "toggling"
    /\ Len(call.toggled) < MaxToggles
    /\ optionIndex \in 0..(Len(call.question.options) - 1)
    /\ call' = [call EXCEPT
                  !.selection = handleSelectionWithExclusivity(
                                    call.question, call.selection, optionIndex),
                  !.toggled = Append(call.toggled, optionIndex),
                  !.validationRule = NULL,
                  !.result = NULL]
    /\ UNCHANGED <<state, historyStack, validationErrors, lastOp, hub>>

validateSelection(validationRule) ==
    /\ call.fn = "toggling"
    /\ call.result = NULL
    /\ call' = [call EXCEPT
                  !.validationRule = validationRule,
                  !.result = validateAnswer(call.question, call.selection,
                                            validationRule)]
    /\ UNCHANGED <<state, historyStack, validationErrors, lastOp, hub>>

NextToggleSeq ==
    \/ \E optionIndex \in 0..MaxOption : toggleOption(optionIndex)
    \/ \E validationRule \in ToggleRules : validateSelection(validationRule)

SpecToggleSeq == InitToggleSeq /\ [][NextToggleSeq]_vars

\* C37: starting from the empty selection, any sequence of
\* toggle_with_exclusivity calls on one question gives a selection without
\* duplicate indices, of at most one index on a single_choice question, and
\* never with an index marked exclusive next to another index; so validate
\* never reports its single-choice or its exclusivity error for it.
C37_ToggledSelectionIsWellFormed ==
    call.fn = "toggling" =>
        /\ \A i, j \in 1..Len(call.selection) :
              i # j => call.selection[i] # call.selection[j]
        /\ call.question.type = "single_choice" => Len(call.selection) <= 1
        /\ (Members(call.selection) \cap MarkedExclusive # {})
              => Len(call.selection) = 1
        /\ call.result # NULL =>
              /\ "Please select only one option" \notin Members(call.result.errors)
              /\ "The selected option cannot be combined with other options"
                    \notin Members(call.result.errors)

\* four clicks on a multiple-choice question with an exclusive option: two
\* regular options, the exclusive one, a regular one again; the selection
\* left is the last one alone and validate has accepted it
C37_Witness ==
    /\ call.fn = "toggling"
    /\ call.question.type = "multiple_choice"
    /\ call.question.options = OptionsWithExclusive
    /\ call.toggled = <<0, 1, MaxOption, 0>>
    /\ call.selection = <<0>>
    /\ call.result # NULL
    /\ call.result.isValid

(***************************************************************************)
(* The wizard at the terminal node (Spec)                                  *)
(***************************************************************************)
\* C38: once the current node is the terminal id "END", submit_answer
\* changes nothing (no snapshot, no flag, no node change), and the state
\* changes from there only through go_back or restart.
C38_EndIsLeftOnlyByBackOrRestart ==
    [][ state.currentNodeId = "END" =>
          /\ lastOp'.op = "handleNext" =>
                (state' = state /\ historyStack' = historyStack)
          /\ (state' # state \/ historyStack' # historyStack) =>
                lastOp'.op \in {"handleBack", "handleRestart"} ]_vars

\* a submit at END has been ignored; the wizard is complete, with the
\* snapshots and flags of the steps that led there
C38_Witness ==
    /\ lastOp.op = "handleNext" /\ lastOp.outcome = "ignored"
    /\ state.currentNodeId = "END"
    /\ state.isComplete
    /\ Len(historyStack) > 0
    /\ state.flags # <<>>
====
